---- MODULE Spec2Model ----
(***************************************************************************)
(* Ticket processing pipeline of zendesk-ai-automation:                    *)
(*   TicketProcessor (src/src/processor.ts),                               *)
(*   LLMOrchestrator (src/src/llm/orchestrator.ts),                        *)
(*   RAGService      (src/unnamed/part_000, second class of the file).     *)
(*                                                                         *)
(* Conventions of the model                                                *)
(*   - a JavaScript string the code inspects or builds character by        *)
(*     character is a sequence of one-character strings;                   *)
(*   - scores and confidences are integers counting hundredths             *)
(*     (0.6 is 60, the keyword boost 0.1 is 10);                           *)
(*   - a JavaScript value that may be undefined, NaN or of the wrong type  *)
(*     is a record [kind, v];                                              *)
(*   - a call that may throw returns [ok, val, err].                       *)
(***************************************************************************)
EXTENDS Integers, Sequences, FiniteSets, TLC

(***************************************************************************)
(* Strings                                                                 *)
(***************************************************************************)
LowerChars ==
  <<"a","b","c","d","e","f","g","h","i","j","k","l","m",
    "n","o","p","q","r","s","t","u","v","w","x","y","z">>

UpperChars ==
  <<"A","B","C","D","E","F","G","H","I","J","K","L","M",
    "N","O","P","Q","R","S","T","U","V","W","X","Y","Z">>

LowerSet == {LowerChars[i] : i \in 1..Len(LowerChars)}

DigitSet == {"0","1","2","3","4","5","6","7","8","9"}

Whitespace == {" ", "\n", "\t"}

MinOf(a, b) == IF a <= b THEN a ELSE b

MaxOf(a, b) == IF a >= b THEN a ELSE b

UpperSet == {UpperChars[i] : i \in 1..Len(UpperChars)}

\* the lower-case letter of each upper-case letter
LowerOf ==
  [c \in UpperSet |->
     LowerChars[CHOOSE i \in 1..Len(UpperChars) : UpperChars[i] = c]]

\* String.prototype.toLowerCase, one character
toLowerChar(c) == IF c \in UpperSet THEN LowerOf[c] ELSE c

\* String.prototype.toLowerCase
toLowerCase(s) == [i \in 1..Len(s) |-> toLowerChar(s[i])]

\* String.prototype.includes: sub occurs in s as a substring
stringIncludes(s, sub) ==
  \E i \in 0..(Len(s) - Len(sub)) : SubSeq(s, i + 1, i + Len(sub)) = sub

\* String.prototype.trim
trim(s) ==
  LET keep == {i \in 1..Len(s) : s[i] \notin Whitespace}
  IN IF keep = {} THEN <<>>
     ELSE SubSeq(s, CHOOSE i \in keep : \A j \in keep : i <= j,
                    CHOOSE i \in keep : \A j \in keep : i >= j)

\* String.prototype.substring(0, n)
substring(s, n) == SubSeq(s, 1, MinOf(n, Len(s)))

\* Array.prototype.slice(0, n)
slice(a, n) == SubSeq(a, 1, MinOf(n, Len(a)))

\* Array.prototype.includes
arrayIncludes(a, x) == \E i \in 1..Len(a) : a[i] = x

(***************************************************************************)
(* src/src/types/index.ts: the closed sets                                 *)
(***************************************************************************)
billing == <<"b","i","l","l","i","n","g">>

technical_support ==
  <<"t","e","c","h","n","i","c","a","l","_","s","u","p","p","o","r","t">>

account_management ==
  <<"a","c","c","o","u","n","t","_","m","a","n","a","g","e","m","e","n","t">>

feature_request ==
  <<"f","e","a","t","u","r","e","_","r","e","q","u","e","s","t">>

bug_report == <<"b","u","g","_","r","e","p","o","r","t">>

general_inquiry ==
  <<"g","e","n","e","r","a","l","_","i","n","q","u","i","r","y">>

cancellation == <<"c","a","n","c","e","l","l","a","t","i","o","n">>

refund == <<"r","e","f","u","n","d">>

onboarding == <<"o","n","b","o","a","r","d","i","n","g">>

integration == <<"i","n","t","e","g","r","a","t","i","o","n">>

security == <<"s","e","c","u","r","i","t","y">>

TICKET_CATEGORIES ==
  <<billing, technical_support, account_management, feature_request,
    bug_report, general_inquiry, cancellation, refund, onboarding,
    integration, security>>

low == <<"l","o","w">>

medium == <<"m","e","d","i","u","m">>

high == <<"h","i","g","h">>

critical == <<"c","r","i","t","i","c","a","l">>

UrgencyLevels == <<low, medium, high, critical>>

positive == <<"p","o","s","i","t","i","v","e">>

neutral == <<"n","e","u","t","r","a","l">>

negative == <<"n","e","g","a","t","i","v","e">>

frustrated == <<"f","r","u","s","t","r","a","t","e","d">>

Sentiments == <<positive, neutral, negative, frustrated>>

unknown == <<"u","n","k","n","o","w","n">>

(***************************************************************************)
(* JavaScript values and thrown errors                                     *)
(***************************************************************************)
\* a number, in hundredths where it is a score or a confidence
JSNum(n) == [kind |-> "number", v |-> n]

\* undefined, null, a missing property
JSUndefined == [kind |-> "undefined", v |-> 0]

\* NaN
JSNaN == [kind |-> "NaN", v |-> 0]

\* a value that is not a number (a string such as "high")
JSNonNumber == [kind |-> "string", v |-> 0]

\* truthiness of such a value: undefined, NaN and 0 are falsy
Truthy(x) ==
  \/ x.kind = "string"
  \/ x.kind = "number" /\ x.v # 0

\* a thrown value: an Error with its message, or something that is no Error
ErrorOf(msg) == [isError |-> TRUE, message |-> msg]

NonError == [isError |-> FALSE, message |-> ""]

NoError == [isError |-> FALSE, message |-> "-"]

Ok(v) == [ok |-> TRUE, val |-> v, err |-> NoError]

Throw(e, v) == [ok |-> FALSE, val |-> v, err |-> e]

(***************************************************************************)
(* Program constants (scores and confidences in hundredths)                *)
(***************************************************************************)
\* processor.ts:53 and :128, minConfidenceForDraft 0.6
DefaultMinConfidence == 60

\* processor.ts:194, keyEntities.slice(0, 3)
MaxEntityTags == 3

\* processor.ts:195, substring(0, 20)
MaxEntityLen == 20

\* processor.ts:133, relevantKnowledge.slice(0, 3)
MaxSources == 3

\* orchestrator.ts:303, parsed.confidence || 0.7
DefaultConfidence == 70

\* orchestrator.ts:313, confidence of the raw-text fallback
FallbackConfidence == 50

\* orchestrator.ts:387, context.slice(0, 5)
ContextLimit == 5

\* part_000:350, retrieve(query, {topK: 10, minScore: 0.5})
HybridTopK == 10

HybridMinScore == 50

\* part_000:353 and :372, slice(0, 5)
HybridLimit == 5

\* part_000:365, keywordMatches.length * 0.1
KeywordBoost == 10

\* part_000:135, const { topK = 5, minScore = 0.7, filter } = options || {}
RetrieveTopK == 5

RetrieveMinScore == 70

(***************************************************************************)
(* LLMOrchestrator (src/src/llm/orchestrator.ts)                           *)
(***************************************************************************)
\* Errors.llmError(message): new AppError(`LLM processing failed: ${message}`)
llmError(message) == ErrorOf("LLM processing failed: " \o message)

\* complete(prompt): the provider's text, or an llmError wrapping its failure.
\* completion = [fails, failure, response]: what the provider does on this call.
complete(completion) ==
  IF completion.fails
    THEN Throw(llmError(IF completion.failure.isError
                          THEN completion.failure.message
                          ELSE "Unknown LLM error"),
               completion.response)
    ELSE Ok(completion.response)

\* a normalisation that strips the underscore with the other non-letters
\* (a mutant)
normalizeCategoryLetters(response) ==
  SelectSeq(toLowerCase(trim(response)), LAMBDA c : c \in LowerSet)

\* response.trim().toLowerCase().replace(/[^a-z_]/g, '')
normalizeCategory(response) ==
  SelectSeq(toLowerCase(trim(response)),
            LAMBDA c : c \in LowerSet \cup {"_"})

\* categorize without its membership test (a mutant)
categorizeUnchecked(completion) ==
  LET r == complete(completion)
  IN IF ~r.ok THEN Throw(r.err, general_inquiry)
     ELSE Ok(normalizeCategory(r.val))

\* categorize(input)
categorize(completion) ==
  LET r == complete(completion)
  IN IF ~r.ok THEN Throw(r.err, general_inquiry)
     ELSE LET category == normalizeCategory(r.val)
          IN IF arrayIncludes(TICKET_CATEGORIES, category)
               THEN Ok(category)
               ELSE Ok(general_inquiry)

\* the value extractIntent returns when the response cannot be parsed
DefaultIntent ==
  [intent |-> unknown, urgency |-> medium, sentiment |-> neutral,
   keyEntities |-> <<>>]

\* extractIntent that falls back to the default intent as a whole when any
\* field is invalid (a mutant)
extractIntentAllOrNothing(completion) ==
  LET r == complete(completion)
  IN IF ~r.ok THEN Throw(r.err, DefaultIntent)
     ELSE IF /\ r.val.parses
             /\ arrayIncludes(UrgencyLevels, r.val.parsed.urgency)
             /\ arrayIncludes(Sentiments, r.val.parsed.sentiment)
             /\ r.val.parsed.keyEntitiesIsArray
       THEN Ok([intent |-> IF r.val.parsed.intent # <<>>
                             THEN r.val.parsed.intent ELSE unknown,
                urgency |-> r.val.parsed.urgency,
                sentiment |-> r.val.parsed.sentiment,
                keyEntities |-> r.val.parsed.keyEntities])
     ELSE Ok(DefaultIntent)

\* extractIntent(text); the response is [parses, parsed]: whether
\* response.match(/\{[\s\S]*\}/) and JSON.parse yield an object, and the object
extractIntent(completion) ==
  LET r == complete(completion)
  IN IF ~r.ok THEN Throw(r.err, DefaultIntent)
     ELSE IF ~r.val.parses THEN Ok(DefaultIntent)
     ELSE LET parsed == r.val.parsed
          IN Ok([intent |-> IF parsed.intent # <<>> THEN parsed.intent
                            ELSE unknown,
                 urgency |-> IF arrayIncludes(UrgencyLevels, parsed.urgency)
                               THEN parsed.urgency ELSE medium,
                 sentiment |-> IF arrayIncludes(Sentiments, parsed.sentiment)
                                 THEN parsed.sentiment ELSE neutral,
                 keyEntities |-> IF parsed.keyEntitiesIsArray
                                   THEN parsed.keyEntities ELSE <<>>])

\* formatContext(context): the articles written into the prompt
formatContext(context) ==
  IF Len(context) = 0
    THEN [found |-> FALSE, articles |-> <<>>]
    ELSE LET top == slice(context, ContextLimit)
         IN [found |-> TRUE,
             articles |-> [i \in 1..Len(top) |->
                             [n |-> i, relevance |-> top[i].score,
                              title |-> top[i].title, text |-> top[i].text,
                              url |-> top[i].url]]]

\* the prompt generateDraft sends to the provider
draftPrompt(input) ==
  [customerName |-> input.customerName,
   sentiment |-> input.sentiment,
   category |-> input.category,
   subject |-> input.subject,
   description |-> input.description,
   contextSection |-> formatContext(input.context)]

\* Math.min(1, Math.max(0, x))
clamp01(x) ==
  IF x.kind = "number" THEN JSNum(MinOf(100, MaxOf(0, x.v))) ELSE JSNaN

\* the raw-text fallback carrying the default confidence of a parsed draft
\* (a mutant)
rawDraftDefaultConfidence(raw) ==
  [isNull |-> FALSE, draft |-> raw, confidence |-> JSNum(DefaultConfidence),
   suggestedTags |-> <<>>, requiresHumanReview |-> TRUE,
   reasoning |-> "Auto-generated from raw LLM response"]

\* the DraftResponse built from unparseable output
rawDraft(raw) ==
  [isNull |-> FALSE, draft |-> raw, confidence |-> JSNum(FallbackConfidence),
   suggestedTags |-> <<>>, requiresHumanReview |-> TRUE,
   reasoning |-> "Auto-generated from raw LLM response"]

\* the draftResponse of a result before stage 4 has produced one
NullDraft ==
  [isNull |-> TRUE, draft |-> "", confidence |-> JSNum(0),
   suggestedTags |-> <<>>, requiresHumanReview |-> TRUE, reasoning |-> ""]

\* generateDraft(input); the response is [raw, parses, parsed]
generateDraft(input, completion) ==
  LET r == complete(completion)
  IN IF ~r.ok THEN Throw(r.err, NullDraft)
     ELSE IF ~r.val.parses THEN Ok(rawDraft(r.val.raw))
     ELSE LET parsed == r.val.parsed
          IN Ok([isNull |-> FALSE,
                 draft |-> IF parsed.draft # "" THEN parsed.draft
                           ELSE r.val.raw,
                 confidence |-> clamp01(IF Truthy(parsed.confidence)
                                          THEN parsed.confidence
                                          ELSE JSNum(DefaultConfidence)),
                 suggestedTags |-> IF parsed.suggestedTagsIsArray
                                     THEN parsed.suggestedTags ELSE <<>>,
                 requiresHumanReview |->
                   IF parsed.requiresHumanReview = "undefined" THEN TRUE
                   ELSE parsed.requiresHumanReview = "true",
                 reasoning |-> parsed.reasoning])

(***************************************************************************)
(* RAGService (src/unnamed/part_000, lines 98-374)                         *)
(***************************************************************************)
\* index.query({vector, topK, ...}): the index answers with at most topK matches
indexQuery(index, topK) == slice(index.matches, topK)

\* Errors.ragError(message): new AppError(`RAG retrieval failed: ${message}`)
ragError(message) == ErrorOf("RAG retrieval failed: " \o message)

\* what is thrown inside the try block of retrieve on this call: embed throws
\* a ragError wrapping the embedding failure, or the index query throws
retrieveFailure(index) ==
  IF index.embedFails
    THEN <<[ev |-> "throw", fn |-> "embed",
            val |-> ragError("Embedding generation failed: "
                             \o "embeddings unavailable")]>>
  ELSE IF index.queryFails
    THEN <<[ev |-> "throw", fn |-> "index.query",
            val |-> ErrorOf("index unavailable")]>>
  ELSE <<>>

\* retrieve that keeps only the matches scoring above minScore (a mutant)
retrieveAbove(index, topK, minScore) ==
  IF index.embedFails \/ index.queryFails THEN <<>>
  ELSE LET above == SelectSeq(slice(index.matches, topK),
                      LAMBDA m : m.score.kind = "number"
                                 /\ m.score.v > minScore)
       IN [i \in 1..Len(above) |->
             [id |-> above[i].id, text |-> above[i].text,
              title |-> above[i].title, score |-> above[i].score.v,
              url |-> above[i].url]]

\* retrieve(query, {topK, minScore}); index = [embedFails, queryFails, matches]
\* is what the embedding call and the index do on this call
retrieve(index, topK, minScore) ==
  IF index.embedFails \/ index.queryFails THEN <<>>
  ELSE LET matches == indexQuery(index, topK)
           above == SelectSeq(matches,
                      LAMBDA m : Truthy(m.score) /\ m.score.kind = "number"
                                 /\ m.score.v >= minScore)
           mapped == [i \in 1..Len(above) |->
                        [id |-> above[i].id, text |-> above[i].text,
                         title |-> above[i].title, score |-> above[i].score.v,
                         url |-> above[i].url]]
       IN SelectSeq(mapped, LAMBDA r : r.text # <<>>)

\* retrieve(query, options): an option left out takes its default
retrieveWith(index, options) ==
  retrieve(index,
           IF options.topK.kind = "undefined" THEN RetrieveTopK
           ELSE options.topK.v,
           IF options.minScore.kind = "undefined" THEN RetrieveMinScore
           ELSE options.minScore.v)

\* keywords.filter(kw => text includes kw || title includes kw), lower-cased
keywordMatches(result, keywords) ==
  SelectSeq(keywords,
    LAMBDA kw :
      \/ stringIncludes(toLowerCase(result.text), toLowerCase(kw.chars))
      \/ stringIncludes(toLowerCase(result.title), toLowerCase(kw.chars)))

\* the boost of a case-sensitive match (a mutant)
boostCaseSensitive(result, keywords) ==
  [result EXCEPT !.score = result.score + KeywordBoost *
     Len(SelectSeq(keywords,
           LAMBDA kw : \/ stringIncludes(result.text, kw.chars)
                       \/ stringIncludes(result.title, kw.chars)))]

\* {...result, score: result.score + keywordMatches.length * 0.1}
boost(result, keywords) ==
  [result EXCEPT
     !.score = result.score + Len(keywordMatches(result, keywords)) * KeywordBoost]

\* one step of the stable sort: x goes after every element scoring at least x
insertByScore(sorted, x) ==
  LET k == Cardinality({i \in 1..Len(sorted) : sorted[i].score >= x.score})
  IN SubSeq(sorted, 1, k) \o <<x>> \o SubSeq(sorted, k + 1, Len(sorted))

RECURSIVE sortByScore(_)
\* boosted.sort((a, b) => b.score - a.score): descending and stable
sortByScore(a) ==
  IF a = <<>> THEN <<>>
  ELSE insertByScore(sortByScore(SubSeq(a, 1, Len(a) - 1)), a[Len(a)])

\* hybridSearch that returns every semantic result (a mutant)
hybridSearchUncut(index, keywords) ==
  LET semanticResults == retrieve(index, HybridTopK, HybridMinScore)
  IN IF ~keywords.defined \/ Len(keywords.list) = 0
       THEN Ok(semanticResults)
     ELSE IF semanticResults # <<>>
             /\ \E i \in 1..Len(keywords.list) : ~keywords.list[i].isString
       THEN Throw(ErrorOf("kw.toLowerCase is not a function"), <<>>)
     ELSE Ok(sortByScore([i \in 1..Len(semanticResults) |->
                            boost(semanticResults[i], keywords.list)]))

\* hybridSearch(query, keywords); keywords = [defined, list], each keyword
\* [isString, chars]: kw.toLowerCase() throws a TypeError on a non-string
hybridSearch(index, keywords) ==
  LET semanticResults == retrieve(index, HybridTopK, HybridMinScore)
  IN IF ~keywords.defined \/ Len(keywords.list) = 0
       THEN Ok(slice(semanticResults, HybridLimit))
     ELSE IF semanticResults # <<>>
             /\ \E i \in 1..Len(keywords.list) : ~keywords.list[i].isString
       THEN Throw(ErrorOf("kw.toLowerCase is not a function"), <<>>)
     ELSE LET boosted == [i \in 1..Len(semanticResults) |->
                            boost(semanticResults[i], keywords.list)]
          IN Ok(slice(sortByScore(boosted), HybridLimit))

(***************************************************************************)
(* TicketProcessor (src/src/processor.ts): generateTags                    *)
(***************************************************************************)
ai_category == <<"a","i","_","c","a","t","e","g","o","r","y",":">>

ai_urgency == <<"a","i","_","u","r","g","e","n","c","y",":">>

ai_sentiment == <<"a","i","_","s","e","n","t","i","m","e","n","t",":">>

ai_entity == <<"a","i","_","e","n","t","i","t","y",":">>

ai_processed == <<"a","i","_","p","r","o","c","e","s","s","e","d">>

\* sanitize without the truncation (a mutant)
sanitizeUntruncated(entity) ==
  [i \in 1..Len(entity) |->
     IF toLowerChar(entity[i]) \in LowerSet \cup DigitSet
       THEN toLowerChar(entity[i]) ELSE "_"]

\* entity.toLowerCase().replace(/[^a-z0-9]/g, '_').substring(0, 20)
sanitize(entity) ==
  LET lowered == toLowerCase(entity)
      replaced == [i \in 1..Len(lowered) |->
                     IF lowered[i] \in LowerSet \cup DigitSet
                       THEN lowered[i] ELSE "_"]
  IN substring(replaced, MaxEntityLen)

\* generateTags(category, intent); entity.toLowerCase() throws a TypeError
\* on an entity that is not a string
generateTags(category, intent) ==
  LET tags == <<ai_category \o category, ai_urgency \o intent.urgency,
                ai_sentiment \o intent.sentiment, ai_processed>>
      first == slice(intent.keyEntities, MaxEntityTags)
      kept == SelectSeq(first, LAMBDA e : sanitize(e.chars) # <<>>)
  IN IF \E i \in 1..Len(first) : ~first[i].isString
       THEN Throw(ErrorOf("entity.toLowerCase is not a function"), tags)
       ELSE Ok(tags \o [i \in 1..Len(kept) |-> ai_entity \o sanitize(kept[i].chars)])

(***************************************************************************)
(* ZendeskClient (src/src/zendesk/client.ts): the ticket updates it sends  *)
(***************************************************************************)
\* a TicketUpdate that sets no field; keys are the fields an update sets
EmptyUpdate ==
  [keys |-> {},
   comment |-> [body |-> [draft |-> "", category |-> <<>>,
                          confidence |-> JSUndefined, sources |-> <<>>],
                public |-> FALSE],
   status |-> "", priority |-> "", tags |-> <<>>, custom_fields |-> <<>>,
   assignee_id |-> 0]

\* updateTicket(ticketId, update): PUT /tickets/{ticketId}.json {ticket: update}
updateTicket(ticketId, update) == [ticketId |-> ticketId, update |-> update]

\* the note posted as a public reply (a mutant; addPublicReply in the client)
addInternalNotePublic(ticketId, note) ==
  updateTicket(ticketId,
               [EmptyUpdate EXCEPT !.keys = {"comment"},
                                   !.comment = [body |-> note, public |-> TRUE]])

\* addInternalNote(ticketId, note): comment {body: note, public: false}
addInternalNote(ticketId, note) ==
  updateTicket(ticketId,
               [EmptyUpdate EXCEPT !.keys = {"comment"},
                                   !.comment = [body |-> note, public |-> FALSE]])

\* the note of addDraftResponse: the draft, then the metadata lines whose
\* value is truthy (confidence as a percentage)
draftNote(draft, metadata) ==
  [draft |-> draft,
   category |-> metadata.category,
   confidence |-> IF Truthy(metadata.confidence) THEN metadata.confidence
                  ELSE JSUndefined,
   sources |-> metadata.sources]

\* addDraftResponse(ticketId, draft, metadata)
addDraftResponse(ticketId, draft, metadata) ==
  addInternalNote(ticketId, draftNote(draft, metadata))

\* setCustomField(ticketId, fieldId, value)
setCustomField(ticketId, fieldId, value) ==
  updateTicket(ticketId,
               [EmptyUpdate EXCEPT !.keys = {"custom_fields"},
                                   !.custom_fields =
                                      <<[id |-> fieldId, value |-> value]>>])

\* setPriority(ticketId, priority)
setPriority(ticketId, priority) ==
  updateTicket(ticketId,
               [EmptyUpdate EXCEPT !.keys = {"priority"},
                                   !.priority = priority])

\* [...new Set(a)]: the elements of a in order of first occurrence
uniq(a) ==
  LET F[i \in 0..Len(a)] ==
        IF i = 0 THEN <<>>
        ELSE IF \E j \in 1..(i - 1) : a[j] = a[i] THEN F[i - 1]
        ELSE Append(F[i - 1], a[i])
  IN F[Len(a)]

\* a merge that keeps only the tags of the call (a mutant)
mergeTagsOwn(existingTags, tags) == uniq(tags)

\* newTags = [...new Set([...existingTags, ...tags])]
mergeTags(existingTags, tags) == uniq(existingTags \o tags)

\* addTags(ticketId, tags) once getTicket answered with existingTags: the
\* merged tags it returns and the update it sends, if any
addTags(existingTags, ticketId, tags) ==
  LET newTags == mergeTags(existingTags, tags)
  IN [newTags |-> newTags,
      puts |-> IF Len(newTags) # Len(existingTags)
                 THEN {updateTicket(ticketId,
                                    [EmptyUpdate EXCEPT !.keys = {"tags"},
                                                        !.tags = newTags])}
                 ELSE {}]

(***************************************************************************)
(* The environment: tickets, configurations, and what the completion       *)
(* provider, the knowledge index and the ticketing system may answer       *)
(***************************************************************************)
\* how many matches the index returns at most in the model (topK is 10)
MaxMatches == 6

str_Login == <<"L","o","g","i","n">>

str_Refund == <<"R","e","f","u","n","d">>

str_err404 == <<"e","r","r"," ","4","0","4">>

str_John == <<"J","o","h","n">>

str_Customer == <<"C","u","s","t","o","m","e","r">>

str_login == <<"l","o","g","i","n">>

str_error == <<"e","r","r","o","r">>

str_ERROR == <<"E","R","R","O","R">>

str_help == <<"h","e","l","p">>

str_URGENT == <<"U","R","G","E","N","T">>

str_angry == <<"a","n","g","r","y">>

str_bang == <<"!","!">>

str_vip == <<"v","i","p">>

\* 30 characters, longer than MaxEntityLen
str_long ==
  <<"E","r","r","o","r","-","C","o","d","e"," ","4","2"," ","(","x","8","6",
    "_","6","4",")"," ","f","a","i","l","u","r","e">>

\* TicketInput values: requester is optional
Tickets ==
  { [id |-> 1, subject |-> str_Login, description |-> str_err404,
     requester |-> [defined |-> TRUE, name |-> str_John],
     tags |-> <<str_vip>>],
    [id |-> 2, subject |-> str_Refund, description |-> <<>>,
     requester |-> [defined |-> FALSE, name |-> <<>>],
     tags |-> <<>>] }

\* the tags the ticket carries in the ticketing system when process starts:
\* those of the ticket handed to process, or tags added since it was sent
str_escalated == <<"e","s","c","a","l","a","t","e","d">>

StoredTags(tk) == IF tk.tags = <<>> THEN <<str_escalated>> ELSE tk.tags

TicketWithRequester ==
  CHOOSE tk \in Tickets : tk.requester.defined

\* the ProcessorConfig objects passed to the constructor; a field left out
\* is JSUndefined
GivenConfigs ==
  [addDraftToTicket : {"undefined", "true", "false"},
   addTagsToTicket : {"undefined", "true", "false"},
   minConfidenceForDraft : {JSUndefined, JSNum(0), JSNum(60), JSNum(85)},
   categoryFieldId : {JSUndefined, JSNum(7)}]

\* constructor: {addDraftToTicket: true, addTagsToTicket: true,
\*               minConfidenceForDraft: 0.6, ...config}
TicketProcessor(given) ==
  [addDraftToTicket |-> given.addDraftToTicket # "false",
   addTagsToTicket |-> given.addTagsToTicket # "false",
   minConfidenceForDraft |->
     IF given.minConfidenceForDraft.kind = "undefined"
       THEN JSNum(DefaultMinConfidence) ELSE given.minConfidenceForDraft,
   categoryFieldId |-> given.categoryFieldId]

\* the processors constructed and the tickets handed to them: every
\* configuration with one ticket, every ticket with the default configuration
Invocations ==
  {<<TicketWithRequester, TicketProcessor(g)>> : g \in GivenConfigs}
  \cup {<<tk, TicketProcessor([addDraftToTicket |-> "undefined",
                               addTagsToTicket |-> "undefined",
                               minConfidenceForDraft |-> JSUndefined,
                               categoryFieldId |-> JSUndefined])>> :
          tk \in Tickets}

\* failures of the provider's SDK call: an Error, or a thrown non-Error
ProviderFailures == {ErrorOf("LLM unavailable"), NonError}

\* the provider on a categorize call
CategorizeCompletions ==
  {[fails |-> FALSE, failure |-> NoError, response |-> r] :
      r \in { <<" ","B","i","l","l","i","n","g",".","\n">>,
              <<"n","o","t","-","a","-","c","a","t","e","g","o","r","y">>,
              <<>> }}
  \cup {[fails |-> TRUE, failure |-> f, response |-> <<>>] :
          f \in ProviderFailures}

\* a key entity as parsed from the provider's JSON: a string, or a value of
\* another type (a number such as 404)
StrEntity(s) == [isString |-> TRUE, chars |-> s]

NonStringEntity == [isString |-> FALSE, chars |-> <<>>]

\* the keyEntities arrays the provider returns in the pipeline
EntityLists ==
  { <<>>,
    <<StrEntity(str_login), StrEntity(str_error)>>,
    <<NonStringEntity>>,
    <<StrEntity(str_Login), StrEntity(<<>>), StrEntity(str_long),
      StrEntity(str_error)>>,
    <<StrEntity(str_bang)>> }

EmptyParsedIntent ==
  [intent |-> <<>>, urgency |-> <<>>, sentiment |-> <<>>,
   keyEntitiesIsArray |-> FALSE, keyEntities |-> <<>>]

\* the provider on an extractIntent call: a failure, text holding no JSON
\* object, or an object whose fields may be invalid
IntentCompletions ==
  {[fails |-> FALSE, failure |-> NoError,
    response |-> [parses |-> TRUE,
                  parsed |-> [intent |-> str_help, urgency |-> u,
                              sentiment |-> s, keyEntitiesIsArray |-> TRUE,
                              keyEntities |-> k]]] :
      u \in {low, medium, high, critical, str_URGENT},
      s \in {frustrated},
      k \in EntityLists}
  \cup {[fails |-> FALSE, failure |-> NoError,
         response |-> [parses |-> TRUE,
                       parsed |-> [intent |-> str_help, urgency |-> high,
                                   sentiment |-> str_angry,
                                   keyEntitiesIsArray |-> FALSE,
                                   keyEntities |-> <<>>]]],
        [fails |-> FALSE, failure |-> NoError,
         response |-> [parses |-> TRUE, parsed |-> EmptyParsedIntent]],
        [fails |-> FALSE, failure |-> NoError,
         response |-> [parses |-> FALSE, parsed |-> EmptyParsedIntent]],
        [fails |-> TRUE, failure |-> ErrorOf("LLM unavailable"),
         response |-> [parses |-> FALSE, parsed |-> EmptyParsedIntent]]}

EmptyParsedDraft ==
  [draft |-> "", confidence |-> JSUndefined, suggestedTagsIsArray |-> FALSE,
   suggestedTags |-> <<>>, requiresHumanReview |-> "undefined",
   reasoning |-> ""]

\* the confidence values the provider reports in the pipeline
ReportedConfidences ==
  {JSNum(40), JSNum(60), JSNum(85), JSNum(0), JSNonNumber}

\* the provider on a generateDraft call
DraftCompletions ==
  {[fails |-> FALSE, failure |-> NoError,
    response |-> [raw |-> "raw", parses |-> TRUE,
                  parsed |-> [draft |-> "Hi John", confidence |-> c,
                              suggestedTagsIsArray |-> TRUE,
                              suggestedTags |-> <<"login_issue">>,
                              requiresHumanReview |-> "false",
                              reasoning |-> "kb"]]] :
      c \in ReportedConfidences}
  \cup {[fails |-> FALSE, failure |-> NoError,
         response |-> [raw |-> "raw", parses |-> FALSE,
                       parsed |-> EmptyParsedDraft]],
        [fails |-> TRUE, failure |-> ErrorOf("LLM unavailable"),
         response |-> [raw |-> "", parses |-> FALSE,
                       parsed |-> EmptyParsedDraft]]}

\* the matches the index may return: id, similarity score and metadata
Match(id, score, text, title) ==
  [id |-> id, score |-> score, text |-> text, title |-> title, url |-> ""]

kbA == Match("kb-A", JSNum(90), <<"R","e","s","e","t"," ","s","t","e","p","s">>,
             <<"P","a","s","s","w","o","r","d">>)

kbB == Match("kb-B", JSNum(80),
             <<"L","o","g","i","n"," ","e","r","r","o","r"," ","f","i","x">>,
             <<"L","O","G","I","N">>)

kbC == Match("kb-C", JSNum(75), <<"E","r","r","o","r"," ","c","o","d","e","s">>,
             <<>>)

kbD == Match("kb-D", JSNum(90), <<"b","i","l","l","i","n","g"," ","f","a","q">>,
             <<>>)

kbE == Match("kb-E", JSNum(55),
             <<"r","e","f","u","n","d"," ","p","o","l","i","c","y">>, <<>>)

kbG == Match("kb-G", JSNum(80), <<"s","s","o">>, <<"L","o","g","i","n">>)

kbLow == Match("kb-L", JSNum(40), <<"o","l","d"," ","p","a","g","e">>, <<>>)

kbNoText == Match("kb-N", JSNum(95), <<>>, <<"P","a","s","s","w","o","r","d">>)

\* the embedding call and the index on one retrieve call, in the pipeline
IndexOutcomes ==
  {[embedFails |-> e, queryFails |-> q, matches |-> <<>>] :
      e \in BOOLEAN, q \in BOOLEAN}
  \cup {[embedFails |-> FALSE, queryFails |-> FALSE, matches |-> m] :
          m \in { <<kbA, kbB, kbC>>,
                  <<kbNoText, kbA, kbD, kbB, kbG, kbC, kbE, kbLow>> }}

\* the ticketing system on one write: it succeeds or fails with an Error
\* Errors.zendeskError(message): new AppError(`Zendesk API error: ${message}`)
zendeskError(message) == ErrorOf("Zendesk API error: " \o message)

WriteOutcomes ==
  {[fails |-> FALSE, failure |-> NoError],
   [fails |-> TRUE, failure |-> zendeskError("Request failed")]}

(***************************************************************************)
(* State                                                                   *)
(*   pc                 the await at which process is suspended, or        *)
(*                      "returned" / "rejected" once its promise settled   *)
(*   ticket, config     the argument of process and this.config            *)
(*   category .. error  the locals of process (processor.ts:65-69)         *)
(*   result             the ProcessingResult process resolved with         *)
(*   trace              the collaborator calls issued and how the awaited  *)
(*                      ones settled, in order                             *)
(*   promises           the fire-and-forget writes: "none", "pending",     *)
(*                      "fulfilled", or "rejected" (caught and logged)     *)
(*   fn, args, returned a function applied on its own: its name, its       *)
(*                      arguments and its return value                     *)
(*   zendesk            the ticketing system: the tags on the ticket and   *)
(*                      the update requests it has received                *)
(*   batch              a processBatch call: its loop and the process      *)
(*                      invocations it started                             *)
(***************************************************************************)
VARIABLES pc, ticket, config, category, intent, relevantKnowledge,
          draftResponse, error, result, trace, promises, fn, args, returned,
          zendesk, batch, server

vars == <<pc, ticket, config, category, intent, relevantKnowledge,
          draftResponse, error, result, trace, promises, fn, args, returned,
          zendesk, batch, server>>

Called(f, a) == [ev |-> "call", fn |-> f, val |-> a]

Returned(f, v) == [ev |-> "return", fn |-> f, val |-> v]

Threw(f, e) == [ev |-> "throw", fn |-> f, val |-> e]

\* error is undefined until the catch block assigns it
Undefined == [defined |-> FALSE, message |-> ""]

NoResult ==
  [ticketId |-> 0, category |-> <<>>, intent |-> DefaultIntent,
   relevantKnowledge |-> <<>>, draftResponse |-> NullDraft,
   error |-> Undefined]

NoPromises ==
  [addTags |-> "none", setCustomField |-> "none", setPriority |-> "none"]

\* no processBatch call is modelled
NoBatch ==
  [status |-> "none", tickets |-> <<>>, concurrency |-> 0, i |-> 0,
   results |-> <<>>, run |-> <<>>, settled |-> <<>>]

\* the web server while no request is modelled: the clock, the rate
\* limiter's map, the requests the limiter saw, the webhook secret, the
\* request being handled, the middleware it reached, the responses sent and
\* the calls of the ticket handler
NoServer ==
  [now |-> 0, ticks |-> 0, requestCounts |-> <<>>, seen |-> <<>>,
   secret |-> "", request |-> <<>>, reached |-> <<>>, responses |-> <<>>,
   handled |-> <<>>]

\* the ticketing system holding these tags, before any request: tags are the
\* tags on the ticket, read the tags its last getTicket answer carried, puts
\* the update requests received
Ticketing(tags) == [tags |-> tags, read |-> <<>>, puts |-> {}]

\* the arguments of the call of f that process issued
callOf(f) ==
  trace[CHOOSE i \in 1..Len(trace) :
          trace[i].ev = "call" /\ trace[i].fn = f].val

\* the return value of a function applied on its own, before it returns
NotReturned == [done |-> FALSE, val |-> <<>>]

\* a catch block that lets the error escape (a mutant)
processRethrow(e) == [settles |-> "rejected", error |-> Undefined]

\* catch (e) { error = e instanceof Error ? e.message : 'Unknown processing error' }
processCatch(e) ==
  [settles |-> "returned",
   error |-> [defined |-> TRUE,
              message |-> IF e.isError THEN e.message
                          ELSE "Unknown processing error"]]

\* a generateDraft argument that leaves the retrieved knowledge out (a mutant)
draftInputNoContext(tk, cat, int, rk) ==
  [subject |-> tk.subject,
   description |-> tk.description,
   customerName |-> str_Customer,
   context |-> <<>>,
   category |-> cat,
   sentiment |-> int.sentiment]

\* the argument of llm.generateDraft (processor.ts:114-121)
draftInput(tk, cat, int, rk) ==
  [subject |-> tk.subject,
   description |-> tk.description,
   customerName |-> IF tk.requester.defined /\ tk.requester.name # <<>>
                      THEN tk.requester.name ELSE str_Customer,
   context |-> rk,
   category |-> cat,
   sentiment |-> int.sentiment]

\* a >= b on numbers; false when either is NaN
GreaterEq(a, b) == a.kind = "number" /\ b.kind = "number" /\ a.v >= b.v

\* addDraftToTicket && confidence >= (minConfidenceForDraft || 0.6)
draftGate(cfg, draft) ==
  /\ cfg.addDraftToTicket
  /\ GreaterEq(draft.confidence,
               IF Truthy(cfg.minConfidenceForDraft)
                 THEN cfg.minConfidenceForDraft
                 ELSE JSNum(DefaultMinConfidence))

\* the third argument of addDraftResponse (processor.ts:130-134)
draftMetadata(cat, draft, rk) ==
  [category |-> cat, confidence |-> draft.confidence,
   sources |-> [i \in 1..Len(slice(rk, MaxSources)) |->
                  IF rk[i].title # <<>> THEN rk[i].title ELSE rk[i].id]]

\* step 8 that escalates every ticket (a mutant)
priorityCallsAlways(tk, int) ==
  <<Called("setPriority",
           [ticketId |-> tk.id,
            priority |-> IF int.urgency = critical THEN "urgent" ELSE "high"])>>

\* step 8: the setPriority call issued for this urgency, if any
priorityCalls(tk, int) ==
  IF int.urgency = critical \/ int.urgency = high
    THEN <<Called("setPriority",
                  [ticketId |-> tk.id,
                   priority |-> IF int.urgency = critical THEN "urgent"
                                ELSE "high"])>>
    ELSE <<>>

\* process suspends at its next await
Advance(next, cat, int, rk, dr, tr, pr) ==
  /\ pc' = next
  /\ category' = cat
  /\ intent' = int
  /\ relevantKnowledge' = rk
  /\ draftResponse' = dr
  /\ trace' = tr
  /\ promises' = pr
  /\ UNCHANGED <<ticket, config, error, result, fn, args, returned, batch,
                 server>>

\* process leaves its try block and settles (processor.ts:146-162)
Finish(cat, int, rk, dr, caught, tr, pr) ==
  /\ pc' = caught.settles
  /\ category' = cat
  /\ intent' = int
  /\ relevantKnowledge' = rk
  /\ draftResponse' = dr
  /\ error' = caught.error
  /\ result' = IF caught.settles = "returned"
                 THEN [ticketId |-> ticket.id, category |-> cat,
                       intent |-> int, relevantKnowledge |-> rk,
                       draftResponse |-> dr, error |-> caught.error]
                 ELSE result
  /\ trace' = tr
  /\ promises' = pr
  /\ UNCHANGED <<ticket, config, fn, args, returned, batch,
                 server>>

\* the try block ran to its end
Completed == [settles |-> "returned", error |-> Undefined]

(***************************************************************************)
(* process(ticket): one action per await                                   *)
(***************************************************************************)
\* after construction, process(ticket) has run up to its first await
Init ==
  /\ \E inv \in Invocations : ticket = inv[1] /\ config = inv[2]
  /\ pc = "categorize"
  /\ category = general_inquiry
  /\ intent = DefaultIntent
  /\ relevantKnowledge = <<>>
  /\ draftResponse = NullDraft
  /\ error = Undefined
  /\ result = NoResult
  /\ trace = <<Called("categorize",
                      [subject |-> ticket.subject,
                       description |-> ticket.description,
                       tags |-> ticket.tags])>>
  /\ promises = NoPromises
  /\ fn = "process"
  /\ args = <<>>
  /\ returned = NotReturned
  /\ zendesk = Ticketing(StoredTags(ticket))
  /\ batch = NoBatch
  /\ server = NoServer

\* step 1 settles; on success step 2 is invoked
CategorizeSettles ==
  /\ pc = "categorize"
  /\ UNCHANGED zendesk
  /\ \E completion \in CategorizeCompletions :
       LET r == categorize(completion)
       IN IF r.ok
            THEN Advance("extractIntent", r.val, intent, relevantKnowledge,
                         draftResponse,
                         trace \o <<Returned("categorize", r.val),
                                    Called("extractIntent", ticket.description)>>,
                         promises)
            ELSE Finish(category, intent, relevantKnowledge, draftResponse,
                        processCatch(r.err),
                        trace \o <<Threw("categorize", r.err)>>, promises)

\* step 2 settles; on success step 3 is invoked
ExtractIntentSettles ==
  /\ pc = "extractIntent"
  /\ UNCHANGED zendesk
  /\ \E completion \in IntentCompletions :
       LET r == extractIntent(completion)
       IN IF r.ok
            THEN Advance("ragRetrieval", category, r.val, relevantKnowledge,
                         draftResponse,
                         trace \o <<Returned("extractIntent", r.val),
                                    Called("hybridSearch",
                                           [query |-> ticket.subject \o <<"\n">>
                                                        \o ticket.description,
                                            keywords |-> r.val.keyEntities])>>,
                         promises)
            ELSE Finish(category, intent, relevantKnowledge, draftResponse,
                        processCatch(r.err),
                        trace \o <<Threw("extractIntent", r.err)>>, promises)

\* step 3 settles; on success steps 4 and 5 run and step 6 is invoked
\* steps 4 to 6 with draft generation started before the writes are
\* dispatched (a mutant)
draftBeforeDispatch(tagCalls, fieldCalls, draftCalls) ==
  draftCalls \o tagCalls \o fieldCalls

\* the calls of steps 4, 5 and 6 in program order: the tag commit and the
\* field commit are dispatched, then draft generation is invoked
stepsFourToSix(tagCalls, fieldCalls, draftCalls) ==
  tagCalls \o fieldCalls \o draftCalls

RagRetrievalSettles ==
  /\ pc = "ragRetrieval"
  /\ UNCHANGED zendesk
  /\ \E index \in IndexOutcomes :
       LET r == hybridSearch(index, [defined |-> TRUE,
                                     list |-> intent.keyEntities])
           tags == generateTags(category, intent)
           tagCalls == IF config.addTagsToTicket
                         THEN <<Called("addTags", [ticketId |-> ticket.id,
                                                   tags |-> tags.val])>>
                         ELSE <<>>
           fieldCalls == IF Truthy(config.categoryFieldId)
                           THEN <<Called("setCustomField",
                                         [ticketId |-> ticket.id,
                                          fieldId |-> config.categoryFieldId.v,
                                          value |-> category])>>
                           ELSE <<>>
           input == draftInput(ticket, category, intent, r.val)
       IN IF ~r.ok
            THEN Finish(category, intent, relevantKnowledge, draftResponse,
                        processCatch(r.err),
                        trace \o <<Threw("hybridSearch", r.err)>>, promises)
          ELSE IF config.addTagsToTicket /\ ~tags.ok
            THEN Finish(category, intent, r.val, draftResponse,
                        processCatch(tags.err),
                        trace \o retrieveFailure(index)
                              \o <<Returned("hybridSearch", r.val),
                                   Threw("generateTags", tags.err)>>,
                        promises)
          ELSE Advance("generateDraft", category, intent, r.val, draftResponse,
                       trace \o retrieveFailure(index)
                             \o <<Returned("hybridSearch", r.val)>>
                             \o stepsFourToSix(
                                  tagCalls, fieldCalls,
                                  <<Called("generateDraft", input),
                                    Called("complete", draftPrompt(input))>>),
                       [promises EXCEPT
                          !.addTags = IF config.addTagsToTicket
                                        THEN "pending" ELSE @,
                          !.setCustomField = IF Truthy(config.categoryFieldId)
                                               THEN "pending" ELSE @])

\* step 6 settles; on success step 7 either awaits the note write or, the
\* gate being closed, step 8 runs and process returns
GenerateDraftSettles ==
  /\ pc = "generateDraft"
  /\ UNCHANGED zendesk
  /\ \E completion \in DraftCompletions :
       LET r == generateDraft(draftInput(ticket, category, intent,
                                         relevantKnowledge), completion)
           prio == priorityCalls(ticket, intent)
       IN IF ~r.ok
            THEN Finish(category, intent, relevantKnowledge, draftResponse,
                        processCatch(r.err),
                        trace \o <<Threw("generateDraft", r.err)>>, promises)
          ELSE IF draftGate(config, r.val)
            THEN Advance("addDraftResponse", category, intent,
                         relevantKnowledge, r.val,
                         trace \o <<Returned("generateDraft", r.val),
                                    Called("addDraftResponse",
                                           [ticketId |-> ticket.id,
                                            draft |-> r.val.draft,
                                            metadata |->
                                              draftMetadata(category, r.val,
                                                            relevantKnowledge)])>>,
                         promises)
          ELSE Finish(category, intent, relevantKnowledge, r.val, Completed,
                      trace \o <<Returned("generateDraft", r.val)>> \o prio,
                      [promises EXCEPT
                         !.setPriority = IF prio # <<>> THEN "pending" ELSE @])

\* the awaited note write of step 7 settles, its update request sent; on
\* success step 8 runs
AddDraftResponseSettles ==
  /\ pc = "addDraftResponse"
  /\ zendesk' =
       [zendesk EXCEPT
          !.puts = @ \cup {addDraftResponse(callOf("addDraftResponse").ticketId,
                                            callOf("addDraftResponse").draft,
                                            callOf("addDraftResponse").metadata)}]
  /\ \E w \in WriteOutcomes :
       LET prio == priorityCalls(ticket, intent)
       IN IF w.fails
            THEN Finish(category, intent, relevantKnowledge, draftResponse,
                        processCatch(w.failure),
                        trace \o <<Threw("addDraftResponse", w.failure)>>,
                        promises)
            ELSE Finish(category, intent, relevantKnowledge, draftResponse,
                        Completed,
                        trace \o <<Returned("addDraftResponse", "void")>> \o prio,
                        [promises EXCEPT
                           !.setPriority = IF prio # <<>> THEN "pending" ELSE @])

\* the update requests a fire-and-forget write sends, given the tags
\* getTicket answers with and whether getTicket fails (addTags reads first)
writeRequests(name, existingTags, getFails) ==
  IF name = "addTags"
    THEN IF getFails THEN {}
         ELSE addTags(existingTags, callOf(name).ticketId,
                      callOf(name).tags).puts
  ELSE IF name = "setCustomField"
    THEN {setCustomField(callOf(name).ticketId, callOf(name).fieldId,
                         callOf(name).value)}
  ELSE {setPriority(callOf(name).ticketId, callOf(name).priority)}

\* a handler that records the failure in the result (a mutant)
catchIntoResult(res, e) ==
  [res EXCEPT !.error = [defined |-> TRUE, message |-> e.message]]

\* .catch(e => logger.warn('Failed to ...', {ticketId, error: e.message})):
\* the handler of a rejected write logs and leaves the result as it is
catchWarn(res, e) == res

\* a fire-and-forget write settles: its requests are sent and it is
\* fulfilled, or rejected and then caught by its own .catch, which logs a
\* warning; a tags update that succeeds replaces the tags on the ticket
WriteSettles(name) ==
  /\ promises[name] = "pending"
  /\ \E g \in (IF name = "addTags" THEN WriteOutcomes
                ELSE {CHOOSE w \in WriteOutcomes : ~w.fails}) :
     \E w \in WriteOutcomes :
       LET requests == writeRequests(name, zendesk.tags, g.fails)
           rejects == g.fails \/ (w.fails /\ requests # {})
       IN /\ g.fails => w.fails
          /\ promises' = [promises EXCEPT
                            ![name] = IF rejects THEN "rejected"
                                      ELSE "fulfilled"]
          /\ result' = IF rejects THEN catchWarn(result, w.failure)
                       ELSE result
          /\ zendesk' =
               [tags |-> IF name = "addTags" /\ ~w.fails /\ requests # {}
                           THEN (CHOOSE r \in requests : TRUE).update.tags
                           ELSE zendesk.tags,
                read |-> IF name = "addTags" /\ ~g.fails THEN zendesk.tags
                         ELSE zendesk.read,
                puts |-> zendesk.puts \cup requests]
  /\ UNCHANGED <<pc, ticket, config, category, intent, relevantKnowledge,
                 draftResponse, error, trace, fn, args, returned, batch,
                 server>>

AddTagsSettles == WriteSettles("addTags")

SetCustomFieldSettles == WriteSettles("setCustomField")

SetPrioritySettles == WriteSettles("setPriority")

Next ==
  \/ CategorizeSettles
  \/ ExtractIntentSettles
  \/ RagRetrievalSettles
  \/ GenerateDraftSettles
  \/ AddDraftResponseSettles
  \/ AddTagsSettles
  \/ SetCustomFieldSettles
  \/ SetPrioritySettles

Spec == Init /\ [][Next]_vars

(***************************************************************************)
(* reprocess(ticketId): getTicket, then process on the fetched ticket      *)
(***************************************************************************)
\* the tickets getTicket may answer with: description may be null
StoredTickets ==
  {[id |-> 1, subject |-> str_Login,
    description |-> [isNull |-> FALSE, chars |-> str_err404],
    tags |-> <<str_vip, ai_processed>>],
   [id |-> 1, subject |-> str_Refund,
    description |-> [isNull |-> TRUE, chars |-> <<>>],
    tags |-> <<>>]}

\* the argument of process before the ticket is fetched
NoTicket ==
  [id |-> 0, subject |-> <<>>, description |-> <<>>,
   requester |-> [defined |-> FALSE, name |-> <<>>], tags |-> <<>>]

\* reprocess(ticketId) has run up to its await of getTicket
InitReprocess ==
  /\ fn = "reprocess"
  /\ args = [ticketId |-> 1]
  /\ pc = "getTicket"
  /\ ticket = NoTicket
  /\ config = TicketProcessor([addDraftToTicket |-> "undefined",
                               addTagsToTicket |-> "undefined",
                               minConfidenceForDraft |-> JSUndefined,
                               categoryFieldId |-> JSUndefined])
  /\ category = general_inquiry
  /\ intent = DefaultIntent
  /\ relevantKnowledge = <<>>
  /\ draftResponse = NullDraft
  /\ error = Undefined
  /\ result = NoResult
  /\ trace = <<Called("getTicket", args)>>
  /\ promises = NoPromises
  /\ returned = NotReturned
  /\ \E stored \in StoredTickets : zendesk = Ticketing(stored.tags)
  /\ batch = NoBatch
  /\ server = NoServer

\* getTicket settles: reprocess rejects with its error, or calls process with
\* {id, subject, description: ticket.description || '', tags}, which runs up
\* to its first await
GetTicketSettles ==
  /\ pc = "getTicket"
  /\ \E w \in WriteOutcomes : \E stored \in StoredTickets :
       IF w.fails
         THEN /\ pc' = "rejected"
              /\ trace' = trace \o <<Threw("getTicket", w.failure)>>
              /\ UNCHANGED <<ticket, zendesk>>
         ELSE /\ stored.id = args.ticketId
              /\ stored.tags = zendesk.tags
              /\ pc' = "categorize"
              /\ ticket' = [id |-> stored.id, subject |-> stored.subject,
                            description |-> IF stored.description.isNull
                                              THEN <<>>
                                              ELSE stored.description.chars,
                            requester |-> [defined |-> FALSE, name |-> <<>>],
                            tags |-> stored.tags]
              /\ trace' = trace \o <<Returned("getTicket", stored),
                                      Called("categorize",
                                             [subject |-> ticket'.subject,
                                              description |-> ticket'.description,
                                              tags |-> ticket'.tags])>>
              /\ zendesk' = [zendesk EXCEPT !.read = stored.tags]
  /\ UNCHANGED <<config, category, intent, relevantKnowledge, draftResponse,
                 error, result, promises, fn, args, returned, batch,
                 server>>

\* process called directly, and reprocess
InitReprocessOrProcess == Init \/ InitReprocess

NextReprocess == GetTicketSettles \/ Next

SpecReprocess == InitReprocessOrProcess /\ [][NextReprocess]_vars

(***************************************************************************)
(* Functions applied on their own: generateTags, hybridSearch and          *)
(* formatContext on arguments drawn from bounded sets                      *)
(***************************************************************************)
\* the longest keyEntities array handed to generateTags
MaxEntities == 4

\* the longest context handed to formatContext
MaxContext == 7

\* sequences over S of length at most n
SeqsUpTo(S, n) == UNION {[1..k -> S] : k \in 0..n}

\* sequences of pairwise different elements of S, of length at most n
DistinctSeqsUpTo(S, n) ==
  {s \in SeqsUpTo(S, n) : \A i, j \in 1..Len(s) : i # j => s[i] # s[j]}

\* the process locals while no process invocation is modelled
IdleLocals ==
  /\ pc = "idle"
  /\ ticket = TicketWithRequester
  /\ config = TicketProcessor([addDraftToTicket |-> "undefined",
                               addTagsToTicket |-> "undefined",
                               minConfidenceForDraft |-> JSUndefined,
                               categoryFieldId |-> JSUndefined])
  /\ category = general_inquiry
  /\ intent = DefaultIntent
  /\ relevantKnowledge = <<>>
  /\ draftResponse = NullDraft
  /\ error = Undefined
  /\ result = NoResult
  /\ trace = <<>>
  /\ promises = NoPromises

IdleProcess ==
  /\ IdleLocals
  /\ zendesk = Ticketing(StoredTags(ticket))
  /\ server = NoServer

Idle == IdleProcess /\ batch = NoBatch

\* the function returns
Apply(name, value) ==
  /\ fn = name
  /\ ~returned.done
  /\ returned' = [done |-> TRUE, val |-> value]
  /\ UNCHANGED <<pc, ticket, config, category, intent, relevantKnowledge,
                 draftResponse, error, result, trace, promises, fn, args,
                 zendesk, batch, server>>

\* the key entities generateTags is applied to
TagEntities ==
  {StrEntity(str_login), StrEntity(str_error), StrEntity(<<>>),
   StrEntity(str_long), StrEntity(str_bang), NonStringEntity}

InitTags ==
  /\ Idle
  /\ fn = "generateTags"
  /\ args \in [category : {account_management, general_inquiry},
               urgency : {high, low},
               sentiment : {frustrated},
               keyEntities : SeqsUpTo(TagEntities, MaxEntities)]
  /\ returned = NotReturned

ApplyGenerateTags ==
  Apply("generateTags",
        generateTags(args.category,
                     [intent |-> unknown, urgency |-> args.urgency,
                      sentiment |-> args.sentiment,
                      keyEntities |-> args.keyEntities]))

SpecTags == InitTags /\ [][ApplyGenerateTags]_vars

\* the matches and keyword arguments hybridSearch is applied to
SearchMatches == {kbA, kbB, kbC, kbD, kbE, kbG, kbLow}

KeywordArgs ==
  {[defined |-> FALSE, list |-> <<>>]}
  \cup {[defined |-> TRUE, list |-> l] :
          l \in { <<>>,
                  <<StrEntity(str_login)>>,
                  <<StrEntity(str_ERROR)>>,
                  <<StrEntity(str_login), StrEntity(str_error)>>,
                  <<StrEntity(str_login), StrEntity(str_login)>>,
                  <<NonStringEntity>> }}

InitSearch ==
  /\ Idle
  /\ fn = "hybridSearch"
  /\ args \in [index : [embedFails : {FALSE}, queryFails : {FALSE},
                        matches : DistinctSeqsUpTo(SearchMatches, MaxMatches)]
                       \cup [embedFails : {TRUE}, queryFails : {FALSE},
                             matches : {<<kbA, kbB, kbC>>}],
               keywords : KeywordArgs]
  /\ returned = NotReturned

ApplyHybridSearch ==
  Apply("hybridSearch", hybridSearch(args.index, args.keywords))

SpecSearch == InitSearch /\ [][ApplyHybridSearch]_vars

\* the most matches the index returns to retrieve applied on its own
MaxRetrieved == 3

\* the matches and options retrieve is applied to: scores on both sides of
\* 0.7 and 0.5, a match without metadata text, a match scoring 0 and a match
\* without a score
kbEdge == Match("kb-7", JSNum(70), <<"s","s","o">>, <<>>)

kbZero == Match("kb-0", JSNum(0), <<"f","a","q">>, <<>>)

kbNoScore == Match("kb-U", JSUndefined, <<"f","a","q">>, <<>>)

RetrieveMatches == {kbA, kbEdge, kbE, kbLow, kbNoText, kbZero, kbNoScore}

RetrieveOptions ==
  [topK : {JSUndefined, JSNum(2)},
   minScore : {JSUndefined, JSNum(HybridMinScore), JSNum(0)}]

InitRetrieve ==
  /\ Idle
  /\ fn = "retrieve"
  /\ args \in [index : [embedFails : {FALSE}, queryFails : {FALSE},
                        matches : DistinctSeqsUpTo(RetrieveMatches,
                                                    MaxRetrieved)]
                       \cup [embedFails : BOOLEAN, queryFails : BOOLEAN,
                             matches : {<<kbA, kbE>>}],
               options : RetrieveOptions]
  /\ returned = NotReturned

ApplyRetrieve == Apply("retrieve", retrieveWith(args.index, args.options))

SpecRetrieve == InitRetrieve /\ [][ApplyRetrieve]_vars

\* the provider's answers categorize is applied to: every category name as it
\* is, capitalised between whitespace and punctuation, in upper case, with
\* blanks for underscores and with a leading underscore, and two other texts
toUpperChar(c) ==
  IF c \in LowerSet THEN CHOOSE u \in UpperSet : LowerOf[u] = c ELSE c

Decorated(c) ==
  { c,
    <<" ", toUpperChar(c[1])>> \o SubSeq(c, 2, Len(c)) \o <<".", "\n">>,
    [i \in 1..Len(c) |-> toUpperChar(c[i])],
    [i \in 1..Len(c) |-> IF c[i] = "_" THEN " " ELSE c[i]],
    <<"_">> \o c }

CategorizeResponses ==
  UNION {Decorated(TICKET_CATEGORIES[i]) : i \in DOMAIN TICKET_CATEGORIES}
  \cup { <<"n","o","t","-","a","-","c","a","t","e","g","o","r","y">>, <<>> }

InitCategorize ==
  /\ Idle
  /\ fn = "categorize"
  /\ args \in [completion :
                 {[fails |-> FALSE, failure |-> NoError, response |-> r] :
                    r \in CategorizeResponses}
                 \cup {[fails |-> TRUE, failure |-> f, response |-> <<>>] :
                         f \in ProviderFailures}]
  /\ returned = NotReturned

ApplyCategorize == Apply("categorize", categorize(args.completion))

\* the provider's answers extractIntent is applied to
ParsedIntents ==
  [intent : {str_help, <<>>},
   urgency : {low, critical, str_URGENT, <<>>},
   sentiment : {positive, frustrated, str_angry, <<>>},
   keyEntitiesIsArray : {TRUE},
   keyEntities : { <<>>, <<StrEntity(str_login), StrEntity(str_error)>>,
                   <<NonStringEntity>> }]
  \cup [intent : {str_help, <<>>},
        urgency : {low, critical, str_URGENT, <<>>},
        sentiment : {positive, frustrated, str_angry, <<>>},
        keyEntitiesIsArray : {FALSE},
        keyEntities : {<<>>}]

InitExtractIntent ==
  /\ Idle
  /\ fn = "extractIntent"
  /\ args \in [completion :
                 {[fails |-> FALSE, failure |-> NoError,
                   response |-> [parses |-> TRUE, parsed |-> q]] :
                    q \in ParsedIntents}
                 \cup {[fails |-> FALSE, failure |-> NoError,
                        response |-> [parses |-> FALSE,
                                      parsed |-> EmptyParsedIntent]]}
                 \cup {[fails |-> TRUE, failure |-> f,
                        response |-> [parses |-> FALSE,
                                      parsed |-> EmptyParsedIntent]] :
                         f \in ProviderFailures}]
  /\ returned = NotReturned

ApplyExtractIntent == Apply("extractIntent", extractIntent(args.completion))

\* the provider's answers generateDraft is applied to: confidences below,
\* inside and above [0, 1], left out, and not a number
DraftConfidences ==
  {JSUndefined, JSNonNumber, JSNum(-20), JSNum(0), JSNum(40), JSNum(70),
   JSNum(100), JSNum(140)}

ParsedDrafts ==
  [draft : {"", "Hi John"},
   confidence : DraftConfidences,
   suggestedTagsIsArray : BOOLEAN,
   suggestedTags : {<<"login_issue">>},
   requiresHumanReview : {"undefined", "true", "false"},
   reasoning : {"kb"}]

RawTexts == {"", "Sorry, I cannot help with that.", "{ not json"}

InitGenerateDraft ==
  /\ Idle
  /\ fn = "generateDraft"
  /\ args \in [input : {draftInput(TicketWithRequester, billing,
                                    DefaultIntent, <<>>)},
               completion :
                 {[fails |-> FALSE, failure |-> NoError,
                   response |-> [raw |-> "raw", parses |-> TRUE,
                                 parsed |-> q]] : q \in ParsedDrafts}
                 \cup {[fails |-> FALSE, failure |-> NoError,
                        response |-> [raw |-> w, parses |-> FALSE,
                                      parsed |-> EmptyParsedDraft]] :
                         w \in RawTexts}
                 \cup {[fails |-> TRUE, failure |-> f,
                        response |-> [raw |-> "", parses |-> FALSE,
                                      parsed |-> EmptyParsedDraft]] :
                         f \in ProviderFailures}]
  /\ returned = NotReturned

ApplyGenerateDraft ==
  Apply("generateDraft", generateDraft(args.input, args.completion))

\* the three operations of the LLMOrchestrator, each applied on its own
InitLLM == InitCategorize \/ InitExtractIntent \/ InitGenerateDraft

NextLLM == ApplyCategorize \/ ApplyExtractIntent \/ ApplyGenerateDraft

SpecLLM == InitLLM /\ [][NextLLM]_vars

(***************************************************************************)
(* Steps 6 and 7 of process on their own: generateDraft on a completion,   *)
(* then the gate that decides on the note write                            *)
(***************************************************************************)
\* steps 6 and 7 (processor.ts:113-136): the draft generateDraft settles
\* with and the note writes issued for it
stepsSixAndSeven(cfg, tk, cat, int, rk, completion) ==
  LET r == generateDraft(draftInput(tk, cat, int, rk), completion)
  IN [draft |-> r,
      noteWrites |-> IF r.ok /\ draftGate(cfg, r.val)
                       THEN {addDraftResponse(tk.id, r.val.draft,
                                              draftMetadata(cat, r.val, rk))}
                       ELSE {}]

InitDraftGate ==
  /\ Idle
  /\ fn = "draftGate"
  /\ args \in [config : {TicketProcessor(g) : g \in GivenConfigs},
               completion :
                 {[fails |-> FALSE, failure |-> NoError,
                   response |-> [raw |-> "raw", parses |-> TRUE,
                                 parsed |-> q]] :
                    q \in {p \in ParsedDrafts :
                             /\ p.draft # ""
                             /\ p.suggestedTagsIsArray
                             /\ p.requiresHumanReview = "false"}}
                 \cup {[fails |-> FALSE, failure |-> NoError,
                        response |-> [raw |-> "{ not json", parses |-> FALSE,
                                      parsed |-> EmptyParsedDraft]],
                       [fails |-> TRUE, failure |-> ErrorOf("LLM unavailable"),
                        response |-> [raw |-> "", parses |-> FALSE,
                                      parsed |-> EmptyParsedDraft]]}]
  /\ returned = NotReturned

ApplyDraftGate ==
  Apply("draftGate",
        stepsSixAndSeven(args.config, ticket, billing, DefaultIntent, <<>>,
                         args.completion))

SpecDraftGate == InitDraftGate /\ [][ApplyDraftGate]_vars

(***************************************************************************)
(* processBatch(tickets, concurrency): batch.tickets are the ids of the    *)
(* tickets, batch.i the loop variable, batch.run[j] the process invocation *)
(* of the ticket at position j (its place among the awaits of process, the *)
(* classifier calls made for it, whether a stage threw, its result),       *)
(* batch.settled the positions in the order their invocations settled      *)
(***************************************************************************)
\* the most tickets handed to processBatch
MaxBatch == 3

\* the largest concurrency handed to processBatch
MaxConcurrency == 2

\* concurrency = 5
DefaultConcurrency == 5

BatchTicketIds == {1, 2}

\* the concurrency argument: left out, or a number from 0 on
BatchConcurrencies == {JSUndefined} \cup {JSNum(c) : c \in 0..MaxConcurrency}

\* process has not been called for the ticket
NotStarted ==
  [pc |-> "notStarted", calls |-> 0, threw |-> FALSE,
   result |-> [ticketId |-> 0, error |-> Undefined]]

\* process(ticket) has run up to its first await: categorize was called
startProcess(r) == [r EXCEPT !.pc = "categorize", !.calls = r.calls + 1]

\* a slice that takes one ticket more (a mutant)
sliceEndInclusive(i, concurrency, length) == MinOf(i + concurrency + 1, length)

\* the last position of tickets.slice(i, i + concurrency), for i and
\* concurrency from 0 on
sliceEnd(i, concurrency, length) == MinOf(i + concurrency, length)

\* the positions of batch = tickets.slice(i, i + concurrency)
chunk(b) == (b.i + 1)..sliceEnd(b.i, b.concurrency, Len(b.tickets))

\* the positions of a set in increasing order
inOrder(S) ==
  LET F[k \in 0..Cardinality(S)] ==
        IF k = 0 THEN <<>>
        ELSE LET rest == {j \in S : Cardinality({m \in S : m < j}) = k - 1}
             IN F[k - 1] \o <<CHOOSE j \in rest : TRUE>>
  IN F[Cardinality(S)]

\* the positions of S in the order in which they occur in the sequence s
inOrderOf(S, s) ==
  LET F[k \in 0..Len(s)] ==
        IF k = 0 THEN <<>>
        ELSE IF s[k] \in S /\ \A m \in 1..(k - 1) : s[m] # s[k]
               THEN F[k - 1] \o <<s[k]>> ELSE F[k - 1]
  IN F[Len(s)]

\* a Promise.all whose values come in the order the promises settled (a
\* mutant)
promiseAllAsSettled(positions, run, settled) ==
  LET order == inOrderOf(positions, settled)
  IN [k \in 1..Len(order) |-> run[order[k]].result]

\* Promise.all(batch.map(ticket => this.process(ticket))) once every promise
\* is fulfilled: the values in the order of the array
promiseAll(positions, run, settled) ==
  LET order == inOrder(positions)
  IN [k \in 1..Len(order) |-> run[order[k]].result]

\* the for loop from its test on: the next chunk's invocations are started
\* and awaited, or the results are returned
batchLoop(b) ==
  IF b.i < Len(b.tickets)
    THEN [b EXCEPT !.status = "awaiting",
                   !.run = [j \in 1..Len(b.tickets) |->
                              IF j \in chunk(b) THEN startProcess(b.run[j])
                              ELSE b.run[j]]]
    ELSE [b EXCEPT !.status = "returned"]

\* the value processBatch has returned, if it has
batchReturned(b) ==
  IF b.status = "returned" THEN [done |-> TRUE, val |-> b.results]
  ELSE NotReturned

\* processBatch(tickets, concurrency) has run up to its first await, or has
\* returned
InitBatch ==
  /\ IdleProcess
  /\ fn = "processBatch"
  /\ args \in [tickets : SeqsUpTo(BatchTicketIds, MaxBatch),
               concurrency : BatchConcurrencies]
  /\ batch = batchLoop([status |-> "called",
                        tickets |-> args.tickets,
                        concurrency |-> IF args.concurrency.kind = "undefined"
                                          THEN DefaultConcurrency
                                          ELSE args.concurrency.v,
                        i |-> 0,
                        results |-> <<>>,
                        run |-> [j \in 1..Len(args.tickets) |-> NotStarted],
                        settled |-> <<>>])
  /\ returned = batchReturned(batch)

\* the awaits of process in order; the one on addDraftResponse is made only
\* when the draft is to be added
BatchAwaits ==
  <<"categorize", "extractIntent", "ragRetrieval", "generateDraft",
    "addDraftResponse">>

\* the invocation after the call it awaits returned: at the next await, or
\* at its return statement
stageReturned(r, ticketId, adds) ==
  LET k == CHOOSE n \in 1..Len(BatchAwaits) : BatchAwaits[n] = r.pc
  IN IF k < 4 \/ (k = 4 /\ adds)
       THEN [r EXCEPT !.pc = BatchAwaits[k + 1]]
       ELSE [r EXCEPT !.pc = Completed.settles,
                      !.result = [ticketId |-> ticketId,
                                  error |-> Completed.error]]

\* the invocation after a throw inside its try block
stageThrew(r, ticketId, e) ==
  [r EXCEPT !.pc = processCatch(e).settles,
            !.threw = TRUE,
            !.result = [ticketId |-> ticketId,
                        error |-> processCatch(e).error]]

\* the call one invocation of the chunk awaits settles
BatchProcessSettles ==
  /\ fn = "processBatch"
  /\ batch.status = "awaiting"
  /\ \E j \in 1..Len(batch.tickets) :
       /\ batch.run[j].pc \in {BatchAwaits[n] : n \in 1..Len(BatchAwaits)}
       /\ \E next \in {stageReturned(batch.run[j], batch.tickets[j], adds) :
                         adds \in BOOLEAN}
                      \cup {stageThrew(batch.run[j], batch.tickets[j], e) :
                              e \in ProviderFailures} :
            batch' = [batch EXCEPT
                        !.run[j] = next,
                        !.settled = IF next.pc \in {"returned", "rejected"}
                                      THEN batch.settled \o <<j>>
                                      ELSE batch.settled]
  /\ UNCHANGED <<pc, ticket, config, category, intent, relevantKnowledge,
                 draftResponse, error, result, trace, promises, fn, args,
                 returned, zendesk, server>>

\* await Promise.all(...) settles: processBatch rejects with the first
\* rejection, or pushes the chunk's results, adds concurrency to i and goes
\* round the loop
PromiseAllSettles ==
  /\ fn = "processBatch"
  /\ batch.status = "awaiting"
  /\ \/ \E j \in chunk(batch) : batch.run[j].pc = "rejected"
     \/ \A j \in chunk(batch) : batch.run[j].pc = "returned"
  /\ batch' =
       IF \E j \in chunk(batch) : batch.run[j].pc = "rejected"
         THEN [batch EXCEPT !.status = "rejected"]
         ELSE batchLoop([batch EXCEPT
                           !.results = batch.results
                                       \o promiseAll(chunk(batch), batch.run,
                                                     batch.settled),
                           !.i = batch.i + batch.concurrency])
  /\ returned' = batchReturned(batch')
  /\ UNCHANGED <<pc, ticket, config, category, intent, relevantKnowledge,
                 draftResponse, error, result, trace, promises, fn, args,
                 zendesk, server>>

NextBatch == BatchProcessSettles \/ PromiseAllSettles

SpecBatch == InitBatch /\ [][NextBatch]_vars

\* processBatch where every call awaited eventually settles and every
\* continuation that can run is run
SpecBatchFair ==
  SpecBatch /\ WF_vars(BatchProcessSettles) /\ WF_vars(PromiseAllSettles)

(***************************************************************************)
(* middleware/webhookValidator.ts: rateLimit and its periodic sweep.       *)
(* requestCounts is a function from the identifiers in the map to their    *)
(* records {count, resetTime}                                              *)
(***************************************************************************)
RATE_LIMIT_WINDOW_MS == 60000

RATE_LIMIT_MAX_REQUESTS == 100

\* a limiter that counts only the requests it admits (a mutant)
rateLimitCountAdmitted(requestCounts, ip, now) ==
  LET identifier == IF ip = "" THEN "unknown" ELSE ip
      fresh == \/ identifier \notin DOMAIN requestCounts
               \/ now > requestCounts[identifier].resetTime
      record == IF fresh
                  THEN [count |-> 0, resetTime |-> now + RATE_LIMIT_WINDOW_MS]
                  ELSE requestCounts[identifier]
      passes == record.count + 1 <= RATE_LIMIT_MAX_REQUESTS
      counted == IF passes THEN [record EXCEPT !.count = @ + 1] ELSE record
  IN [requestCounts |-> IF identifier \in DOMAIN requestCounts
                          THEN [requestCounts EXCEPT ![identifier] = counted]
                          ELSE requestCounts @@ (identifier :> counted),
      identifier |-> identifier,
      next |-> passes,
      status |-> IF passes THEN 0 ELSE 429,
      retryAfter |-> (counted.resetTime - now + 999) \div 1000]

\* rateLimit(req, res, next) for a request from ip ("" when req.ip is not
\* set) at time now: the map afterwards, whether next() is called, and the
\* status and retryAfter of the response it sends otherwise
rateLimit(requestCounts, ip, now) ==
  LET identifier == IF ip = "" THEN "unknown" ELSE ip
      fresh == \/ identifier \notin DOMAIN requestCounts
               \/ now > requestCounts[identifier].resetTime
      record == IF fresh
                  THEN [count |-> 0, resetTime |-> now + RATE_LIMIT_WINDOW_MS]
                  ELSE requestCounts[identifier]
      counted == [record EXCEPT !.count = @ + 1]
      passes == counted.count <= RATE_LIMIT_MAX_REQUESTS
  IN [requestCounts |-> IF identifier \in DOMAIN requestCounts
                          THEN [requestCounts EXCEPT ![identifier] = counted]
                          ELSE requestCounts @@ (identifier :> counted),
      identifier |-> identifier,
      next |-> passes,
      status |-> IF passes THEN 0 ELSE 429,
      retryAfter |-> (counted.resetTime - now + 999) \div 1000]

\* n requests from ip handled one after the other at time now: the map
\* afterwards and how many of them were passed on
RECURSIVE rateLimitTimes(_, _, _, _)
rateLimitTimes(requestCounts, ip, now, n) ==
  IF n = 0 THEN [admitted |-> 0, requestCounts |-> requestCounts]
  ELSE IF n = 1
    THEN LET one == rateLimit(requestCounts, ip, now)
         IN [admitted |-> IF one.next THEN 1 ELSE 0,
             requestCounts |-> one.requestCounts]
  ELSE LET first == rateLimitTimes(requestCounts, ip, now, n \div 2)
           rest == rateLimitTimes(first.requestCounts, ip, now,
                                  n - (n \div 2))
       IN [admitted |-> first.admitted + rest.admitted,
           requestCounts |-> rest.requestCounts]

\* the setInterval callback: deletes the records with now > resetTime
sweep(requestCounts, now) ==
  [k \in {id \in DOMAIN requestCounts : ~(now > requestCounts[id].resetTime)}
     |-> requestCounts[k]]

\* the most groups of requests the limiter is sent
MaxBursts == 3

\* how often the clock is advanced at most
MaxTicks == 2

\* the addresses requests come from ("": req.ip is not set)
ClientIps == {"10.0.0.1", ""}

\* how many requests arrive together
BurstSizes == {1, RATE_LIMIT_MAX_REQUESTS}

\* by how much the clock advances between requests
TickSteps == {1, RATE_LIMIT_WINDOW_MS}

InitRateLimit ==
  /\ IdleLocals
  /\ zendesk = Ticketing(StoredTags(ticket))
  /\ batch = NoBatch
  /\ server = NoServer
  /\ fn = "rateLimit"
  /\ args = <<>>
  /\ returned = NotReturned

\* requests from one address arrive and pass through rateLimit one after the
\* other
RateLimitRequests ==
  /\ fn = "rateLimit"
  /\ Len(server.seen) < MaxBursts
  /\ \E ip \in ClientIps : \E n \in BurstSizes :
       LET r == rateLimitTimes(server.requestCounts, ip, server.now, n)
       IN server' = [server EXCEPT
                       !.requestCounts = r.requestCounts,
                       !.seen = Append(@, [identifier |->
                                             rateLimit(server.requestCounts, ip,
                                                       server.now).identifier,
                                           at |-> server.now,
                                           requests |-> n,
                                           admitted |-> r.admitted,
                                           answered429 |-> n - r.admitted])]
  /\ UNCHANGED <<pc, ticket, config, category, intent, relevantKnowledge,
                 draftResponse, error, result, trace, promises, fn, args,
                 returned, zendesk, batch>>

\* time passes
Tick ==
  /\ fn = "rateLimit"
  /\ server.ticks < MaxTicks
  /\ \E d \in TickSteps :
       server' = [server EXCEPT !.now = @ + d, !.ticks = @ + 1]
  /\ UNCHANGED <<pc, ticket, config, category, intent, relevantKnowledge,
                 draftResponse, error, result, trace, promises, fn, args,
                 returned, zendesk, batch>>

\* the periodic sweep runs
Sweep ==
  /\ fn = "rateLimit"
  /\ server' = [server EXCEPT
                  !.requestCounts = sweep(server.requestCounts, server.now)]
  /\ UNCHANGED <<pc, ticket, config, category, intent, relevantKnowledge,
                 draftResponse, error, result, trace, promises, fn, args,
                 returned, zendesk, batch>>

NextRateLimit == RateLimitRequests \/ Tick \/ Sweep

SpecRateLimit == InitRateLimit /\ [][NextRateLimit]_vars

(***************************************************************************)
(* POST /webhook/ticket (index.ts): rateLimit, validateZendeskWebhook,     *)
(* validateTicketPayload and the ticket handler, run by express one after  *)
(* the other for a request                                                 *)
(***************************************************************************)
\* a property of a parsed JSON body, or a header: left out, null, a number
\* or a string
JsonAbsent == [kind |-> "undefined", num |-> 0, chars |-> <<>>]

JsonNull == [kind |-> "null", num |-> 0, chars |-> <<>>]

JsonNum(n) == [kind |-> "number", num |-> n, chars |-> <<>>]

JsonStr(s) == [kind |-> "string", num |-> 0, chars |-> s]

\* !x
Falsy(x) ==
  \/ x.kind \in {"undefined", "null"}
  \/ x.kind = "number" /\ x.num = 0
  \/ x.kind = "string" /\ x.chars = <<>>

Digits == <<"0", "1", "2", "3", "4", "5", "6", "7", "8", "9">>

IsDigit(c) == \E i \in DOMAIN Digits : Digits[i] = c

\* the decimal digits at the start of s, read as a number after acc
RECURSIVE decimal(_, _)
decimal(s, acc) ==
  IF s = <<>> \/ ~IsDigit(s[1]) THEN acc
  ELSE decimal(Tail(s),
               acc * 10 + (CHOOSE i \in DOMAIN Digits : Digits[i] = s[1]) - 1)

\* parseInt(s, 10): white space skipped, a sign, then the digits up to the
\* first other character; NaN when there is no digit
parseInt(s) ==
  LET t == trim(s)
      signed == t # <<>> /\ t[1] \in {"-", "+"}
      body == IF signed THEN Tail(t) ELSE t
  IN IF body = <<>> \/ ~IsDigit(body[1]) THEN JSNaN
     ELSE JSNum(IF signed /\ t[1] = "-" THEN 0 - decimal(body, 0)
                ELSE decimal(body, 0))

\* Number(x) for the values above (strings in decimal notation): null and
\* the blank string are 0, undefined and any other string are NaN
Number(x) ==
  IF x.kind = "number" THEN JSNum(x.num)
  ELSE IF x.kind = "null" THEN JSNum(0)
  ELSE IF x.kind = "undefined" THEN JSNaN
  ELSE LET t == trim(x.chars)
           signed == t # <<>> /\ t[1] \in {"-", "+"}
           body == IF signed THEN Tail(t) ELSE t
       IN IF t = <<>> THEN JSNum(0)
          ELSE IF body # <<>> /\ \A i \in DOMAIN body : IsDigit(body[i])
            THEN parseInt(t)
          ELSE JSNaN

\* the decimal notation of a natural number
RECURSIVE toDigits(_)
toDigits(n) ==
  IF n < 10 THEN <<Digits[n + 1]>>
  ELSE Append(toDigits(n \div 10), Digits[(n % 10) + 1])

\* String(x)
String(x) ==
  IF x.kind = "string" THEN x.chars
  ELSE IF x.kind = "number"
    THEN IF x.num < 0 THEN <<"-">> \o toDigits(0 - x.num) ELSE toDigits(x.num)
  ELSE IF x.kind = "null" THEN <<"n", "u", "l", "l">>
  ELSE <<"u", "n", "d", "e", "f", "i", "n", "e", "d">>

\* a > b on numbers; false when either is NaN
Greater(a, b) == a.kind = "number" /\ b.kind = "number" /\ a.v > b.v

\* a - b * 1000
MinusSeconds(a, b) ==
  IF b.kind = "number" THEN JSNum(a - b.v * 1000) ELSE JSNaN

\* the length of a base64 SHA-256 digest
DigestLength == 44

\* the age in ms above which a signature timestamp is refused
\* (5 * 60 * 1000)
MaxTimestampAge == 300000

\* crypto.createHmac('sha256', key).update(message).digest('base64'): a
\* string that is the same for the same key and message only
createHmac(key, message) ==
  [kind |-> "string", length |-> DigestLength,
   digest |-> [key |-> key, message |-> message]]

\* a comparison of the lengths only (a mutant)
timingSafeEqualLengths(a, b) ==
  IF a.length # b.length
    THEN Throw(ErrorOf("Input buffers must have the same byte length"), FALSE)
    ELSE Ok(TRUE)

\* crypto.timingSafeEqual(Buffer.from(a), Buffer.from(b)): throws a
\* RangeError when the lengths differ
timingSafeEqual(a, b) ==
  IF a.length # b.length
    THEN Throw(ErrorOf("Input buffers must have the same byte length"), FALSE)
    ELSE Ok(a.digest = b.digest)

\* what a middleware did with a request: called next(), sent a response, or
\* threw
NoResponse ==
  [status |-> 0, success |-> FALSE, error |-> "", missing |-> <<>>,
   received |-> <<>>, retryAfter |-> 0, message |-> "", ticketId |-> JSUndefined,
   timestamp |-> 0]

PassedOn(body) ==
  [next |-> TRUE, threw |-> FALSE, err |-> NoError, response |-> NoResponse,
   body |-> body]

Answered(body, status, msg) ==
  [next |-> FALSE, threw |-> FALSE, err |-> NoError,
   response |-> [NoResponse EXCEPT !.status = status, !.error = msg],
   body |-> body]

Threw500(body, e) ==
  [next |-> FALSE, threw |-> TRUE, err |-> e, response |-> NoResponse,
   body |-> body]

\* validateZendeskWebhook(secret)(req, res, next) at time now
validateZendeskWebhook(secret, req, now) ==
  IF secret = "" THEN PassedOn(req.body)
  ELSE IF req.signature.kind = "undefined" \/ req.signature.length = 0
          \/ Falsy(req.timestamp)
    THEN Answered(req.body, 401, "Missing signature headers")
  ELSE LET timestampAge == MinusSeconds(now, parseInt(req.timestamp.chars))
           expectedSignature ==
             createHmac(secret, [timestamp |-> req.timestamp.chars,
                                 body |-> req.body])
           isValid == timingSafeEqual(req.signature, expectedSignature)
       IN IF Greater(timestampAge, JSNum(MaxTimestampAge))
            THEN Answered(req.body, 401, "Webhook timestamp expired")
          ELSE IF ~isValid.ok THEN Threw500(req.body, isValid.err)
          ELSE IF ~isValid.val
            THEN Answered(req.body, 401, "Invalid signature")
          ELSE PassedOn(req.body)

\* the fields validateTicketPayload requires, in its order
required == <<"id", "subject", "description">>

\* the properties of a ticket object
TicketKeys == <<"id", "subject", "description", "tags", "requester">>

\* Array.prototype.filter
RECURSIVE filter(_, _)
filter(a, keep) ==
  IF a = <<>> THEN <<>>
  ELSE (IF a[1] \in keep THEN <<a[1]>> ELSE <<>>) \o filter(Tail(a), keep)

\* field => !ticket[field] && ticket[field] !== 0
isMissing(tk, field) ==
  Falsy(tk[field]) /\ ~(tk[field].kind = "number" /\ tk[field].num = 0)

\* validateTicketPayload(req, res, next): the response it sends, or the
\* body with the normalized ticket it passes on
validateTicketPayload(body) ==
  LET tk == body.ticket
      missing == filter(required,
                        {field \in {"id", "subject", "description"} :
                           isMissing(tk, field)})
  IN IF ~tk.present
       THEN Answered(body, 400, "Missing ticket object in payload")
     ELSE IF Len(missing) > 0
       THEN [Answered(body, 400, "Missing required ticket fields")
               EXCEPT !.response.missing = missing,
                      !.response.received =
                         filter(TicketKeys,
                                {f \in {"id", "subject", "description"} :
                                   tk[f].kind # "undefined"}
                                \cup {f \in {"tags"} :
                                        tk.tags.kind # "undefined"}
                                \cup {f \in {"requester"} :
                                        tk.requester.defined})]
     ELSE PassedOn(
            [ticket |->
               [present |-> TRUE,
                id |-> Number(tk.id),
                subject |-> trim(String(tk.subject)),
                description |-> trim(String(tk.description)),
                tags |-> IF tk.tags.kind = "array" THEN tk.tags.items
                         ELSE <<>>,
                requester |-> IF tk.requester.defined
                                THEN tk.requester
                                ELSE [defined |-> TRUE,
                                      name |-> str_Customer,
                                      email |-> "unknown@example.com"]]])

\* errorHandler (registered last): statusCode || 500, and the message of
\* an error that is not operational is replaced
errorHandler(err) ==
  [NoResponse EXCEPT !.status = 500,
                     !.error = "An unexpected error occurred"]

\* a number as res.json writes it: NaN becomes null
jsonNumber(x) == IF x.kind = "NaN" THEN JSUndefined ELSE x

\* the ticket handler (index.ts:90-127): the ticket it hands to process,
\* which runs up to its first await, and the response it sends then
\* (requester without the email, which process does not read)
ticketHandler(body, now) ==
  [process |-> [id |-> body.ticket.id,
                subject |-> body.ticket.subject,
                description |-> body.ticket.description,
                requester |-> [defined |-> body.ticket.requester.defined,
                               name |-> body.ticket.requester.name],
                tags |-> body.ticket.tags],
   responses |-> <<[NoResponse EXCEPT
                      !.status = 200,
                      !.success = TRUE,
                      !.ticketId = jsonNumber(body.ticket.id),
                      !.message = "Ticket received and processing started",
                      !.timestamp = now]>>]

\* app.post('/webhook/ticket', rateLimit, validateZendeskWebhook(secret),
\* validateTicketPayload, asyncHandler(...)) for one request at time now:
\* the limiter's map afterwards, the responses sent, the middleware the
\* request reached, and the ticket the handler was invoked with, if it was
postWebhookTicket(secret, requestCounts, req, now) ==
  LET limited == rateLimit(requestCounts, req.ip, now)
      signed == validateZendeskWebhook(secret, req, now)
      valid == validateTicketPayload(signed.body)
      handler == ticketHandler(valid.body, now)
  IN IF ~limited.next
       THEN [requestCounts |-> limited.requestCounts,
             reached |-> <<"rateLimit">>,
             responses |-> <<[NoResponse EXCEPT
                                !.status = limited.status,
                                !.error = "Rate limit exceeded",
                                !.retryAfter = limited.retryAfter]>>,
             handled |-> <<>>]
     ELSE IF ~signed.next
       THEN [requestCounts |-> limited.requestCounts,
             reached |-> <<"rateLimit", "validateZendeskWebhook">>,
             responses |-> IF signed.threw THEN <<errorHandler(signed.err)>>
                           ELSE <<signed.response>>,
             handled |-> <<>>]
     ELSE IF ~valid.next
       THEN [requestCounts |-> limited.requestCounts,
             reached |-> <<"rateLimit", "validateZendeskWebhook",
                           "validateTicketPayload">>,
             responses |-> <<valid.response>>,
             handled |-> <<>>]
     ELSE [requestCounts |-> limited.requestCounts,
           reached |-> <<"rateLimit", "validateZendeskWebhook",
                         "validateTicketPayload", "handler">>,
           responses |-> handler.responses,
           handled |-> <<[ticket |-> valid.body.ticket,
                          process |-> handler.process]>>]

\* the secret the sender signs with
WebhookSecret == "whsec"

\* Date.now() when the request arrives, in ms
WebhookNow == 1000000

\* the ticket object of a well-formed payload
PayloadTicket ==
  [present |-> TRUE,
   id |-> JsonNum(12345),
   subject |-> JsonStr(<<" ">> \o str_Login \o <<" ">>),
   description |-> JsonStr(str_err404),
   tags |-> [kind |-> "array", items |-> <<str_vip>>],
   requester |-> [defined |-> TRUE, name |-> str_John,
                  email |-> "john@example.com"]]

\* a body without a ticket property
NoTicketObject ==
  [present |-> FALSE, id |-> JsonAbsent, subject |-> JsonAbsent,
   description |-> JsonAbsent, tags |-> [kind |-> "undefined", items |-> <<>>],
   requester |-> [defined |-> FALSE, name |-> <<>>, email |-> ""]]

\* the bodies sent: the well-formed one and the ones that differ from it in
\* the ticket object, in one of its properties, or in subject and
\* description
PayloadBodies ==
  {[ticket |-> t] :
     t \in {PayloadTicket, NoTicketObject,
            [PayloadTicket EXCEPT !.subject = JsonAbsent,
                                  !.description = JsonAbsent],
            [PayloadTicket EXCEPT !.id = JsonAbsent, !.subject = JsonAbsent,
                                  !.description = JsonStr(<<>>)]}
          \cup {[PayloadTicket EXCEPT !.id = v] :
                  v \in {JsonAbsent, JsonNull, JsonNum(0),
                         JsonStr(<<"1", "2", "3", "4", "5">>),
                         JsonStr(<<"a", "b", "c">>), JsonStr(<<>>)}}
          \cup {[PayloadTicket EXCEPT !.subject = v] :
                  v \in {JsonAbsent, JsonNull, JsonStr(<<>>),
                         JsonStr(<<" ", " ">>), JsonNum(0)}}
          \cup {[PayloadTicket EXCEPT !.description = v] :
                  v \in {JsonAbsent, JsonStr(<<>>)}}
          \cup {[PayloadTicket EXCEPT !.tags = v] :
                  v \in {[kind |-> "undefined", items |-> <<>>],
                         [kind |-> "string", items |-> <<>>]}}
          \cup {[PayloadTicket EXCEPT !.requester =
                   [defined |-> FALSE, name |-> <<>>, email |-> ""]]}}

\* the x-zendesk-webhook-signature-timestamp headers sent: none, empty, now,
\* 300 s ago, 301 s ago, in the future, not a number
SignatureTimestamps ==
  {JsonAbsent, JsonStr(<<>>), JsonStr(<<"1", "0", "0", "0">>),
   JsonStr(<<"7", "0", "0">>), JsonStr(<<"6", "9", "9">>),
   JsonStr(<<"9", "9", "9", "9">>), JsonStr(<<"a", "b", "c">>)}

NoSignature == [kind |-> "undefined", length |-> 0, digest |-> <<>>]

\* the x-zendesk-webhook-signature headers sent with this timestamp and
\* body: none, empty, the sender's signature, one under another key, one of
\* another body, one of another timestamp, and a shortened one
Signatures(timestamp, body) ==
  LET message == [timestamp |-> timestamp.chars, body |-> body]
  IN {NoSignature,
      [kind |-> "string", length |-> 0, digest |-> <<>>],
      createHmac(WebhookSecret, message),
      createHmac("guess", message),
      createHmac(WebhookSecret, [message EXCEPT !.body =
                                                  [ticket |-> NoTicketObject]]),
      createHmac(WebhookSecret, [message EXCEPT !.timestamp = <<"1">>]),
      [createHmac(WebhookSecret, message) EXCEPT !.length = 10]}

WebhookRequest(ip, signature, timestamp, body) ==
  [ip |-> ip, signature |-> signature, timestamp |-> timestamp, body |-> body]

\* the servers and the requests that reach them: a server with the secret
\* and every header with the well-formed body, or every body signed by the
\* sender; a server without a secret; a limiter that has already counted
\* 100 requests of the address in the open window
WebhookArrivals ==
  LET now == JsonStr(<<"1", "0", "0", "0">>)
      full == "10.0.0.1" :> [count |-> RATE_LIMIT_MAX_REQUESTS,
                             resetTime |-> WebhookNow + 1]
  IN {[secret |-> WebhookSecret, requestCounts |-> <<>>,
       request |-> WebhookRequest("10.0.0.1", s, t, [ticket |-> PayloadTicket])] :
        t \in SignatureTimestamps,
        s \in UNION {Signatures(u, [ticket |-> PayloadTicket]) :
                       u \in SignatureTimestamps}}
     \cup {[secret |-> WebhookSecret, requestCounts |-> <<>>,
            request |-> WebhookRequest("10.0.0.1",
                                       createHmac(WebhookSecret,
                                                  [timestamp |-> now.chars,
                                                   body |-> b]),
                                       now, b)] : b \in PayloadBodies}
     \cup {[secret |-> "", requestCounts |-> <<>>,
            request |-> WebhookRequest("10.0.0.1", s, t, b)] :
             s \in {NoSignature, createHmac("guess", <<>>)},
             t \in {JsonAbsent, now},
             b \in {[ticket |-> PayloadTicket], [ticket |-> NoTicketObject]}}
     \cup {[secret |-> WebhookSecret, requestCounts |-> full,
            request |-> WebhookRequest(ip,
                                       createHmac(WebhookSecret,
                                                  [timestamp |-> now.chars,
                                                   body |-> [ticket |-> PayloadTicket]]),
                                       now, [ticket |-> PayloadTicket])] :
             ip \in ClientIps}

\* the server is listening and a request has arrived; the processor is the
\* one index.ts constructs when no category field is configured
InitWebhook ==
  /\ IdleLocals
  /\ zendesk = Ticketing(StoredTags(ticket))
  /\ batch = NoBatch
  /\ \E a \in WebhookArrivals :
       server = [NoServer EXCEPT !.now = WebhookNow,
                                 !.secret = a.secret,
                                 !.requestCounts = a.requestCounts,
                                 !.request = a.request]
  /\ fn = "webhook"
  /\ args = <<>>
  /\ returned = NotReturned

\* express runs the route for the request: the middleware in order and, if
\* all pass it on, the handler, in which process runs up to its first await
PostWebhookTicket ==
  /\ fn = "webhook"
  /\ pc = "idle"
  /\ server.reached = <<>>
  /\ LET r == postWebhookTicket(server.secret, server.requestCounts,
                                server.request, server.now)
     IN /\ server' = [server EXCEPT !.requestCounts = r.requestCounts,
                                    !.reached = r.reached,
                                    !.responses = r.responses,
                                    !.handled = r.handled]
        /\ IF r.handled # <<>>
             THEN /\ pc' = "categorize"
                  /\ ticket' = r.handled[1].process
                  /\ trace' = <<Called("categorize",
                                       [subject |-> ticket'.subject,
                                        description |-> ticket'.description,
                                        tags |-> ticket'.tags])>>
             ELSE UNCHANGED <<pc, ticket, trace>>
  /\ UNCHANGED <<config, category, intent, relevantKnowledge, draftResponse,
                 error, result, promises, fn, args, returned, zendesk, batch>>

NextWebhook == PostWebhookTicket \/ Next

SpecWebhook == InitWebhook /\ [][NextWebhook]_vars

(***************************************************************************)
(* addTags(ticketId, tags) applied on its own, once and again, with no     *)
(* other writer and a ticketing system that answers every request          *)
(***************************************************************************)
\* the longest tag list the ticket carries or addTags is handed
MaxTags == 2

\* the most calls of addTags with the same arguments
MaxAddTagsCalls == 2

TagNames == {str_vip, str_escalated, ai_processed}

\* args.existingTags are the tags of the ticket when addTags is first called
InitAddTags ==
  /\ IdleLocals
  /\ fn = "addTags"
  /\ args \in [ticketId : {1},
               tags : SeqsUpTo(TagNames, MaxTags),
               existingTags : SeqsUpTo(TagNames, MaxTags)]
  /\ zendesk = Ticketing(args.existingTags)
  /\ batch = NoBatch
  /\ server = NoServer
  /\ returned = NotReturned

\* one call of addTags, from getTicket to its return; the PUT it sends
\* replaces the ticket's tags
ApplyAddTags ==
  /\ fn = "addTags"
  /\ Cardinality({i \in DOMAIN trace : trace[i].ev = "return"}) < MaxAddTagsCalls
  /\ LET call == addTags(zendesk.tags, args.ticketId, args.tags)
         sent == IF call.puts = {} THEN <<>>
                 ELSE <<Called("updateTicket", CHOOSE r \in call.puts : TRUE)>>
     IN /\ zendesk' = [tags |-> IF call.puts = {} THEN zendesk.tags
                                ELSE call.newTags,
                       read |-> zendesk.tags,
                       puts |-> zendesk.puts \cup call.puts]
        /\ trace' = trace \o <<Called("addTags", [ticketId |-> args.ticketId,
                                                  tags |-> args.tags])>>
                          \o sent \o <<Returned("addTags", call.newTags)>>
        /\ returned' = [done |-> TRUE, val |-> call.newTags]
  /\ UNCHANGED <<pc, ticket, config, category, intent, relevantKnowledge,
                 draftResponse, error, result, promises, fn, args, batch,
                 server>>

SpecAddTags == InitAddTags /\ [][ApplyAddTags]_vars

(***************************************************************************)
(* Two calls of addTags for the same ticket in flight together (from two   *)
(* process or reprocess invocations): returned[i] is call i's position     *)
(* (at), the tags its getTicket answered with (read) and its outcome       *)
(***************************************************************************)
\* the tags the two callers add
ConcurrentTags ==
  {<<ai_processed>>, <<ai_processed, str_escalated>>, <<str_vip>>}

AddTagsCall(at, read, val) == [at |-> at, read |-> read, val |-> val]

\* both calls have issued their getTicket
InitAddTagsTwice ==
  /\ IdleLocals
  /\ fn = "addTagsTwice"
  /\ args \in [ticketId : {1},
               tags : [1..2 -> ConcurrentTags],
               existingTags : SeqsUpTo(TagNames, MaxTags)]
  /\ zendesk = Ticketing(args.existingTags)
  /\ batch = NoBatch
  /\ server = NoServer
  /\ returned = [i \in 1..2 |-> AddTagsCall("getTicket", <<>>, <<>>)]

\* getTicket of call i settles: on an answer the call merges and either
\* sends its update or, when the length is unchanged, returns
AddTagsGetTicketSettles ==
  /\ fn = "addTagsTwice"
  /\ \E i \in 1..2 : \E g \in WriteOutcomes :
       /\ returned[i].at = "getTicket"
       /\ LET call == addTags(zendesk.tags, args.ticketId, args.tags[i])
          IN /\ returned' =
                  [returned EXCEPT
                     ![i] = IF g.fails THEN AddTagsCall("rejected", <<>>, <<>>)
                            ELSE IF call.puts = {}
                              THEN AddTagsCall("returned", zendesk.tags,
                                               call.newTags)
                            ELSE AddTagsCall("updateTicket", zendesk.tags,
                                             call.newTags)]
             /\ trace' = IF g.fails
                           THEN Append(trace, Threw("getTicket", i))
                           ELSE Append(trace, Returned("getTicket", i))
             /\ zendesk' = [zendesk EXCEPT
                              !.read = IF g.fails THEN @ ELSE zendesk.tags]
  /\ UNCHANGED <<pc, ticket, config, category, intent, relevantKnowledge,
                 draftResponse, error, result, promises, fn, args, batch,
                 server>>

\* updateTicket of call i settles: the request that succeeds replaces the
\* ticket's tags by the tags the call merged
AddTagsUpdateTicketSettles ==
  /\ fn = "addTagsTwice"
  /\ \E i \in 1..2 : \E w \in WriteOutcomes :
       /\ returned[i].at = "updateTicket"
       /\ LET call == addTags(returned[i].read, args.ticketId, args.tags[i])
          IN /\ returned' =
                  [returned EXCEPT
                     ![i] = IF w.fails
                              THEN AddTagsCall("rejected", @.read, <<>>)
                              ELSE AddTagsCall("returned", @.read,
                                               call.newTags)]
             /\ trace' = IF w.fails
                           THEN Append(trace, Threw("updateTicket", i))
                           ELSE Append(trace, Returned("updateTicket", i))
             /\ zendesk' = [zendesk EXCEPT
                              !.tags = IF w.fails THEN @ ELSE call.newTags,
                              !.puts = @ \cup call.puts]
  /\ UNCHANGED <<pc, ticket, config, category, intent, relevantKnowledge,
                 draftResponse, error, result, promises, fn, args, batch,
                 server>>

NextAddTagsTwice == AddTagsGetTicketSettles \/ AddTagsUpdateTicketSettles

SpecAddTagsTwice == InitAddTagsTwice /\ [][NextAddTagsTwice]_vars

(***************************************************************************)
(* process and reprocess invoked one after the other on the same ticket:   *)
(* step 4 of each run, with stages 1-3 and the tag commit succeeding;      *)
(* trace holds the tags each run synthesized                               *)
(***************************************************************************)
\* the most runs on the ticket
MaxRuns == 2

\* the classifier's and the extractor's outputs, which may differ from run
\* to run
RunOutputs ==
  [category : {billing, technical_support, refund},
   urgency : {low, high},
   sentiment : {neutral, frustrated}]

InitRuns ==
  /\ IdleLocals
  /\ fn = "runs"
  /\ args \in [ticketId : {1}, existingTags : {<<>>, <<str_vip>>}]
  /\ zendesk = Ticketing(args.existingTags)
  /\ batch = NoBatch
  /\ server = NoServer
  /\ returned = NotReturned

\* one run: generateTags on its outputs, then addTags from getTicket to the
\* update that replaces the ticket's tags
RunTagsTicket ==
  /\ fn = "runs"
  /\ Len(trace) < MaxRuns
  /\ \E out \in RunOutputs :
       LET tags == generateTags(out.category,
                                [intent |-> unknown, urgency |-> out.urgency,
                                 sentiment |-> out.sentiment,
                                 keyEntities |-> <<>>]).val
           call == addTags(zendesk.tags, args.ticketId, tags)
       IN /\ zendesk' = [tags |-> IF call.puts = {} THEN zendesk.tags
                                  ELSE call.newTags,
                         read |-> zendesk.tags,
                         puts |-> zendesk.puts \cup call.puts]
          /\ trace' = Append(trace, Called("addTags",
                                           [ticketId |-> args.ticketId,
                                            tags |-> tags]))
          /\ returned' = [done |-> TRUE, val |-> out]
  /\ UNCHANGED <<pc, ticket, config, category, intent, relevantKnowledge,
                 draftResponse, error, result, promises, fn, args, batch,
                 server>>

SpecRuns == InitRuns /\ [][RunTagsTicket]_vars

(***************************************************************************)
(* indexDocuments(documents): a document is the number of its entry in the *)
(* knowledge base; index.embedFails are the documents whose embedding      *)
(* throws, index.upsertFails the batches (numbered from 1) whose upsert    *)
(* throws                                                                   *)
(***************************************************************************)
\* const batchSize = 100
batchSize == 100

\* the most documents of a list shorter than a batch, and the most documents
\* a longer list has beyond its first batch
MaxDocs == 2

\* documents.slice(start, end)
documentsSlice(documents, start, end) ==
  SubSeq(documents, start + 1, MinOf(end, Len(documents)))

\* the entries the inner catch pushes for the batch: one for each document
\* whose embedding throws (in the order of the documents; the order in which
\* the embeddings settle is not modelled)
embeddingErrors(docs, index) ==
  LET failed == SelectSeq(docs, LAMBDA doc : doc \in index.embedFails)
  IN [j \in 1..Len(failed) |->
        [id |-> failed[j],
         error |-> ragError("Embedding generation failed: "
                            \o "embeddings unavailable").message]]

\* vectors.filter(v => v !== null)
validVectors(docs, index) ==
  SelectSeq(docs, LAMBDA doc : doc \notin index.embedFails)

\* the entries the outer catch pushes: batch.forEach(doc => errors.push(...))
batchErrors(docs) ==
  [j \in 1..Len(docs) |-> [id |-> docs[j], error |-> "upsert failed"]]

\* the body of the loop for the batch starting at i
indexBatch(indexed, errors, docs, i, index) ==
  LET afterEmbedding == errors \o embeddingErrors(docs, index)
      valid == validVectors(docs, index)
  IN IF Len(valid) > 0 /\ ((i \div batchSize) + 1) \in index.upsertFails
       THEN [indexed |-> indexed,
             errors |-> afterEmbedding \o batchErrors(docs)]
       ELSE [indexed |-> indexed + Len(valid), errors |-> afterEmbedding]

\* for (let i = 0; i < documents.length; i += batchSize)
RECURSIVE indexFrom(_, _, _, _, _)
indexFrom(documents, i, indexed, errors, index) ==
  IF ~(i < Len(documents))
    THEN [indexed |-> indexed, errors |-> errors]
    ELSE LET after == indexBatch(indexed, errors,
                                 documentsSlice(documents, i, i + batchSize),
                                 i, index)
         IN indexFrom(documents, i + batchSize, after.indexed, after.errors,
                      index)

indexDocuments(documents, index) ==
  Ok(indexFrom(documents, 0, 0, <<>>, index))

\* the document lists: the short ones, and the ones of more than one batch
DocumentLists ==
  DistinctSeqsUpTo(1..MaxDocs, MaxDocs)
    \cup {[j \in 1..(batchSize + k) |-> j] : k \in 1..MaxDocs}

InitIndexDocuments ==
  /\ Idle
  /\ fn = "indexDocuments"
  /\ args \in [documents : DocumentLists,
               index : [embedFails :
                          SUBSET ((1..MaxDocs) \cup {batchSize + 1}),
                        upsertFails : SUBSET {1, 2}]]
  /\ returned = NotReturned

ApplyIndexDocuments ==
  Apply("indexDocuments", indexDocuments(args.documents, args.index))

SpecIndexDocuments == InitIndexDocuments /\ [][ApplyIndexDocuments]_vars

\* the knowledge results formatContext is applied to
ContextResults ==
  {[id |-> "kb-A", text |-> str_login, title |-> str_Login, score |-> 90,
    url |-> "https://kb/a"],
   [id |-> "kb-B", text |-> str_error, title |-> <<>>, score |-> 110,
    url |-> ""]}

InitContext ==
  /\ Idle
  /\ fn = "formatContext"
  /\ args \in [context : SeqsUpTo(ContextResults, MaxContext)]
  /\ returned = NotReturned

ApplyFormatContext == Apply("formatContext", formatContext(args.context))

\* the pipeline together with hybridSearch and formatContext on their own
InitTopFive == Init \/ InitSearch \/ InitContext

NextTopFive == Next \/ ApplyHybridSearch \/ ApplyFormatContext

SpecTopFive == InitTopFive /\ [][NextTopFive]_vars

(***************************************************************************)
(* Properties                                                              *)
(***************************************************************************)
\* positions of the trace at which f was called, returned, threw
CallIdx(f) == {i \in DOMAIN trace : trace[i].ev = "call" /\ trace[i].fn = f}

ReturnIdx(f) == {i \in DOMAIN trace : trace[i].ev = "return" /\ trace[i].fn = f}

ThrowIdx(f) == {i \in DOMAIN trace : trace[i].ev = "throw" /\ trace[i].fn = f}

\* the value f resolved with (f has returned)
ReturnValue(f) == trace[CHOOSE i \in ReturnIdx(f) : TRUE].val

StageNames == <<"categorize", "extractIntent", "hybridSearch", "generateDraft">>

CategorySet == {TICKET_CATEGORIES[i] : i \in DOMAIN TICKET_CATEGORIES}

\* the awaits of process
Awaits ==
  {"categorize", "extractIntent", "ragRetrieval", "generateDraft",
   "addDraftResponse"}

\* C1: process never rejects: it is either suspended at one of its awaits or
\* has resolved with a result whose category, urgency and sentiment lie in
\* their closed sets, whatever the collaborators answered.
C1_ProcessResolvesInClosedSets ==
  /\ pc # "rejected"
  /\ pc \in Awaits \cup {"returned"}
  /\ pc = "returned" =>
       /\ result.ticketId = ticket.id
       /\ result.category \in CategorySet
       /\ result.intent.urgency \in {low, medium, high, critical}
       /\ result.intent.sentiment \in {positive, neutral, negative, frustrated}

\* C1 witness: process resolved after a stage threw, the category being the
\* fallback and the intent the one extracted
C1_Witness ==
  /\ pc = "returned"
  /\ result.error.defined
  /\ ThrowIdx("generateDraft") # {}
  /\ result.category = general_inquiry
  /\ result.intent.urgency = critical

\* C2: when stage k throws, nothing is invoked after it, process returns with
\* error set to the thrown error's message, the fields of the stages before k
\* hold what those stages returned and the fields of stage k and later hold
\* their defaults.
C2_StageFailureStopsPipeline ==
  \A k \in 1..4 : \A i \in ThrowIdx(StageNames[k]) :
    /\ i = Len(trace)
    /\ pc = "returned"
    /\ result.error = [defined |-> TRUE, message |-> trace[i].val.message]
    /\ result.category = IF k > 1 THEN ReturnValue("categorize")
                         ELSE general_inquiry
    /\ result.intent = IF k > 2 THEN ReturnValue("extractIntent")
                       ELSE [intent |-> unknown, urgency |-> medium,
                             sentiment |-> neutral, keyEntities |-> <<>>]
    /\ result.relevantKnowledge = IF k > 3 THEN ReturnValue("hybridSearch")
                                  ELSE <<>>
    /\ result.draftResponse.isNull
    /\ \A l \in (k + 1)..4 : CallIdx(StageNames[l]) = {}

\* C2 witness: generateDraft threw after the three earlier stages produced a
\* category, an intent and a non-empty knowledge list
C2_Witness ==
  /\ pc = "returned"
  /\ ThrowIdx("generateDraft") # {}
  /\ result.category = billing
  /\ result.intent.urgency = high
  /\ Len(result.relevantKnowledge) = 3

\* C3: each stage is invoked at most once, a stage only after the previous one
\* returned; hybridSearch gets subject, newline, description as query and the
\* extracted keyEntities as keywords; generateDraft gets the category, the
\* sentiment and the knowledge list the earlier stages returned.
C3_StagesSequential ==
  /\ \A k \in 1..4 : Cardinality(CallIdx(StageNames[k])) <= 1
  /\ \A k \in 2..4 : \A i \in CallIdx(StageNames[k]) :
       \E j \in ReturnIdx(StageNames[k - 1]) : j < i
  /\ \A k \in 1..3 : \A i \in CallIdx(StageNames[k]) :
       \A j \in CallIdx(StageNames[k + 1]) : i < j
  /\ \A i \in CallIdx("hybridSearch") :
       LET q == trace[i].val.query
           ns == Len(ticket.subject)
       IN /\ Len(q) = ns + 1 + Len(ticket.description)
          /\ SubSeq(q, 1, ns) = ticket.subject
          /\ q[ns + 1] = "\n"
          /\ SubSeq(q, ns + 2, Len(q)) = ticket.description
          /\ trace[i].val.keywords = ReturnValue("extractIntent").keyEntities
  /\ \A i \in CallIdx("generateDraft") :
       /\ trace[i].val.category = ReturnValue("categorize")
       /\ trace[i].val.sentiment = ReturnValue("extractIntent").sentiment
       /\ trace[i].val.context = ReturnValue("hybridSearch")

\* C3 witness: all four stages were invoked, with keywords and knowledge
C3_Witness ==
  /\ CallIdx("generateDraft") # {}
  /\ ReturnValue("extractIntent").keyEntities # <<>>
  /\ ReturnValue("hybridSearch") # <<>>
  /\ ReturnValue("categorize") = billing

\* the draft generateDraft resolved with was produced
DraftGenerated == ReturnIdx("generateDraft") # {}

\* C4 (as claimed): once a draft is generated, exactly one addDraftResponse
\* call is issued if addDraftToTicket is enabled and the draft's confidence is
\* at least the configured minConfidenceForDraft, and none otherwise.
C4_NoteWriteIffAtLeastConfigured ==
  DraftGenerated =>
    Cardinality(CallIdx("addDraftResponse")) =
      IF /\ config.addDraftToTicket
         /\ ReturnValue("generateDraft").confidence.kind = "number"
         /\ ReturnValue("generateDraft").confidence.v
              >= config.minConfidenceForDraft.v
        THEN 1 ELSE 0

\* C5 (as claimed): whenever stages 1-3 succeeded and process has returned,
\* generateDraft was invoked, and a draft it resolved with is the result's
\* draftResponse, whatever the gate decided.
C5_DraftAlwaysComputedAndReturned ==
  pc = "returned" /\ ReturnIdx("hybridSearch") # {} =>
    /\ CallIdx("generateDraft") # {}
    /\ DraftGenerated =>
         result.draftResponse = ReturnValue("generateDraft")

\* a best-effort step failed: tag synthesis threw, or a fire-and-forget write
\* was rejected
BestEffortFailed ==
  \/ ThrowIdx("generateTags") # {}
  \/ \E w \in DOMAIN promises : promises[w] = "rejected"

\* an awaited collaborator call threw
AwaitedCallThrew ==
  \E f \in {"categorize", "extractIntent", "hybridSearch", "generateDraft",
            "addDraftResponse"} : ThrowIdx(f) # {}

\* C6 (as claimed): when a best-effort step has failed and no awaited call
\* threw, the returned result carries no error and the remaining stages ran:
\* the draft was generated and a high or critical urgency was escalated.
C6_BestEffortFailuresSwallowed ==
  pc = "returned" /\ BestEffortFailed /\ ~AwaitedCallThrew =>
    /\ ~result.error.defined
    /\ DraftGenerated
    /\ result.intent.urgency \in {high, critical} => CallIdx("setPriority") # {}

\* the priority the claim maps an urgency to
PriorityOf(urgency) == IF urgency = critical THEN "urgent" ELSE "high"

\* C8 (as claimed): whenever stages 1-4 succeeded and process has returned,
\* exactly one setPriority call was issued for urgency critical (urgent) or
\* high (high), whether or not the note was committed, and none for low or
\* medium.
C8_PriorityWheneverDraftGenerated ==
  pc = "returned" /\ DraftGenerated =>
    IF result.intent.urgency \in {critical, high}
      THEN /\ Cardinality(CallIdx("setPriority")) = 1
           /\ \A i \in CallIdx("setPriority") :
                trace[i].val = [ticketId |-> ticket.id,
                                priority |-> PriorityOf(result.intent.urgency)]
      ELSE CallIdx("setPriority") = {}

\* C8 (amended): the same, provided the note write of step 7, if it was
\* issued, did not throw; when it throws no setPriority call is issued.
C8_PriorityUnlessNoteWriteThrew ==
  /\ pc = "returned" /\ DraftGenerated /\ ThrowIdx("addDraftResponse") = {} =>
       IF result.intent.urgency \in {critical, high}
         THEN /\ Cardinality(CallIdx("setPriority")) = 1
              /\ \A i \in CallIdx("setPriority") :
                   trace[i].val = [ticketId |-> ticket.id,
                                   priority |->
                                     PriorityOf(result.intent.urgency)]
         ELSE CallIdx("setPriority") = {}
  /\ ThrowIdx("addDraftResponse") # {} => CallIdx("setPriority") = {}
  /\ pc # "returned" => CallIdx("setPriority") = {}

\* C8 witness: a critical ticket escalated to urgent although the gate kept
\* the draft from being committed
C8_Witness ==
  /\ pc = "returned"
  /\ DraftGenerated
  /\ CallIdx("addDraftResponse") = {}
  /\ result.intent.urgency = critical
  /\ \E i \in CallIdx("setPriority") : trace[i].val.priority = "urgent"

\* the entity tag body the claim describes: lower-cased, every character
\* outside a-z and 0-9 replaced by an underscore, cut to 20 characters
ExpectedEntity(e) ==
  [j \in 1..(IF Len(e) < 20 THEN Len(e) ELSE 20) |->
     IF e[j] \in LowerSet \cup DigitSet THEN e[j]
     ELSE IF e[j] \in UpperSet THEN LowerOf[e[j]]
     ELSE "_"]

\* C7: the tag list generateTags returns is ai_category:<category>,
\* ai_urgency:<urgency>, ai_sentiment:<sentiment>, ai_processed, followed, in
\* order, by one ai_entity:<e> tag for each of the first three key entities
\* that is not empty after sanitizing: between 4 and 7 tags.
C7_TagList ==
  fn = "generateTags" /\ returned.done /\ returned.val.ok =>
    LET tags == returned.val.val
        first == SubSeq(args.keyEntities, 1,
                        IF Len(args.keyEntities) < 3
                          THEN Len(args.keyEntities) ELSE 3)
        kept == {i \in 1..Len(first) : ExpectedEntity(first[i].chars) # <<>>}
        rank(i) == Cardinality({j \in kept : j <= i})
    IN /\ Len(tags) = 4 + Cardinality(kept)
       /\ Len(tags) >= 4 /\ Len(tags) <= 7
       /\ tags[1] = ai_category \o args.category
       /\ tags[2] = ai_urgency \o args.urgency
       /\ tags[3] = ai_sentiment \o args.sentiment
       /\ tags[4] = ai_processed
       /\ \A i \in kept :
            tags[4 + rank(i)] = ai_entity \o ExpectedEntity(first[i].chars)

\* C7 witness: four key entities, the second empty and the third longer than
\* 20 characters, give six tags, one of them cut to 20 characters; the tags
\* of the example in the specification are among them
C7_Witness ==
  /\ fn = "generateTags" /\ returned.done /\ returned.val.ok
  /\ args.category = account_management
  /\ args.urgency = high
  /\ args.keyEntities = <<StrEntity(str_login), StrEntity(<<>>),
                          StrEntity(str_long), StrEntity(str_error)>>
  /\ Len(returned.val.val) = 6
  /\ returned.val.val[1] = ai_category \o account_management
  /\ returned.val.val[5] = ai_entity \o str_login
  /\ Len(returned.val.val[6]) = Len(ai_entity) + 20

\* the semantic results of the hybridSearch call applied on its own
SemanticResults == retrieve(args.index, 10, 50)

\* kw occurs in s, case-insensitively, as a substring
OccursIn(kw, s) ==
  \E a \in 0..(Len(s) - Len(kw)) :
    \A j \in 1..Len(kw) : toLowerChar(s[a + j]) = toLowerChar(kw[j])

\* the boosted scores the claim describes for the semantic results sem
BoostedScores(sem, keywords) ==
  [i \in 1..Len(sem) |->
     sem[i].score
       + 10 * Cardinality({k \in 1..Len(keywords) :
                             \/ OccursIn(keywords[k].chars, sem[i].text)
                             \/ OccursIn(keywords[k].chars, sem[i].title)})]

\* C9: with a non-empty keyword list hybridSearch returns the first 5 of the
\* semantic results ordered by boosted score, descending, equal scores in
\* their original order, each carrying its boosted score.
C9_BoostedRerank ==
  /\ fn = "hybridSearch" /\ returned.done /\ returned.val.ok
  /\ args.keywords.defined /\ args.keywords.list # <<>>
  =>
    LET out == returned.val.val
        sem == SemanticResults
        bs == BoostedScores(sem, args.keywords.list)
        pos == [k \in 1..Len(out) |->
                  CHOOSE i \in 1..Len(sem) : sem[i].id = out[k].id]
        chosen == {pos[k] : k \in 1..Len(out)}
        before(i, j) == bs[i] > bs[j] \/ (bs[i] = bs[j] /\ i < j)
    IN /\ Len(out) = (IF Len(sem) < 5 THEN Len(sem) ELSE 5)
       /\ \A k \in 1..Len(out) :
            /\ \E i \in 1..Len(sem) : sem[i].id = out[k].id
            /\ out[k] = [sem[pos[k]] EXCEPT !.score = bs[pos[k]]]
       /\ \A k, l \in 1..Len(out) : k < l => before(pos[k], pos[l])
       /\ \A i \in chosen : \A j \in (1..Len(sem)) \ chosen : before(i, j)

\* C9 witness: the example of the specification, scores 0.90, 0.80, 0.75 with
\* 0, 2 and 1 keyword matches, returned in the order 2nd, 1st, 3rd
C9_Witness ==
  /\ fn = "hybridSearch" /\ returned.done /\ returned.val.ok
  /\ args.index.matches = <<kbA, kbB, kbC>>
  /\ ~args.index.embedFails
  /\ args.keywords.list = <<StrEntity(str_login), StrEntity(str_error)>>
  /\ [k \in 1..Len(returned.val.val) |-> returned.val.val[k].id]
       = <<"kb-B", "kb-A", "kb-C">>
  /\ [k \in 1..Len(returned.val.val) |-> returned.val.val[k].score]
       = <<100, 90, 85>>

\* C10: without keywords hybridSearch returns the first 5 semantic results
\* unchanged; it never returns more than 5; so relevantKnowledge, the result
\* and the context handed to generateDraft hold at most 5 entries; and
\* formatContext writes the first 5 entries of its context, at most, into the
\* prompt, also when given more.
C10_AtMostFive ==
  /\ fn = "hybridSearch" /\ returned.done =>
       /\ returned.val.ok => Len(returned.val.val) <= 5
       /\ ~args.keywords.defined \/ args.keywords.list = <<>> =>
            /\ returned.val.ok
            /\ Len(returned.val.val)
                 = (IF Len(SemanticResults) < 5 THEN Len(SemanticResults) ELSE 5)
            /\ \A k \in 1..Len(returned.val.val) :
                 returned.val.val[k] = SemanticResults[k]
  /\ fn = "formatContext" /\ returned.done =>
       /\ Len(returned.val.articles)
            = (IF Len(args.context) < 5 THEN Len(args.context) ELSE 5)
       /\ \A k \in 1..Len(returned.val.articles) :
            /\ returned.val.articles[k].text = args.context[k].text
            /\ returned.val.articles[k].title = args.context[k].title
  /\ Len(relevantKnowledge) <= 5
  /\ Len(result.relevantKnowledge) <= 5
  /\ \A i \in CallIdx("generateDraft") : Len(trace[i].val.context) <= 5
  /\ \A i \in CallIdx("complete") : Len(trace[i].val.contextSection.articles) <= 5

\* C10 witness: hybridSearch applied without keywords to six semantic
\* results returned the first five of them
C10_Witness ==
  /\ fn = "hybridSearch" /\ returned.done /\ returned.val.ok
  /\ ~args.keywords.defined
  /\ Len(SemanticResults) = 6
  /\ Len(returned.val.val) = 5

\* the embedding call or the index query failed inside retrieve
RetrievalFailed == ThrowIdx("embed") \cup ThrowIdx("index.query") # {}

\* C11 (as claimed): when the embedding call or the index query has failed,
\* hybridSearch resolved with the empty list instead of throwing, and once
\* process has returned generateDraft was invoked, relevantKnowledge is empty
\* and an error of the result, if any, is that of a later awaited call.
C11_RetrievalFailureNeverAborts ==
  RetrievalFailed =>
    /\ ThrowIdx("hybridSearch") = {}
    /\ ReturnIdx("hybridSearch") # {}
    /\ ReturnValue("hybridSearch") = <<>>
    /\ pc = "returned" =>
         /\ CallIdx("generateDraft") # {}
         /\ result.relevantKnowledge = <<>>
         /\ result.error.defined =>
              \E f \in {"generateDraft", "addDraftResponse"} :
                \E i \in ThrowIdx(f) :
                  result.error.message = trace[i].val.message

\* the matches the index returned to the retrieve call applied on its own:
\* at most topK of them, none when the embedding or the query failed
IndexReturned ==
  IF args.index.embedFails \/ args.index.queryFails THEN <<>>
  ELSE SubSeq(args.index.matches, 1,
              LET k == IF args.options.topK.kind = "undefined" THEN 5
                       ELSE args.options.topK.v
              IN IF Len(args.index.matches) < k
                   THEN Len(args.index.matches) ELSE k)

\* minScore of the retrieve call: 0.7 unless given
MinScoreGiven ==
  IF args.options.minScore.kind = "undefined" THEN 70
  ELSE args.options.minScore.v

\* the value of retrieve is, in index order, one KnowledgeResult for each
\* match the index returned that satisfies keep
RetrievedExactly(keep(_)) ==
  LET kept == SelectSeq(IndexReturned, keep)
      out == returned.val
  IN /\ Len(out) = Len(kept)
     /\ \A i \in 1..Len(out) :
          /\ out[i].id = kept[i].id
          /\ out[i].score = kept[i].score.v
          /\ out[i].text = kept[i].text
          /\ out[i].title = kept[i].title

\* C12 (as claimed): retrieve returns, in index order, one KnowledgeResult
\* for exactly the matches the index returned with a score of at least
\* minScore.
C12_ExactlyMatchesAtLeastMinScore ==
  fn = "retrieve" /\ returned.done =>
    RetrievedExactly(LAMBDA m : m.score.kind = "number"
                                /\ m.score.v >= MinScoreGiven)

\* C12 (amended): retrieve returns, in index order, one KnowledgeResult for
\* exactly the matches the index returned with a score of at least minScore
\* that is not 0 and with a non-empty metadata text.
C12_MatchesAtLeastMinScoreWithText ==
  fn = "retrieve" /\ returned.done =>
    RetrievedExactly(LAMBDA m : /\ m.score.kind = "number"
                                /\ m.score.v >= MinScoreGiven
                                /\ m.score.v # 0
                                /\ m.text # <<>>)

\* C12 witness: with the default minScore 0.7 the match scoring exactly 0.7
\* is returned and the one scoring 0.55 is not
C12_Witness ==
  /\ fn = "retrieve" /\ returned.done
  /\ args.options.minScore.kind = "undefined"
  /\ args.index.matches = <<kbE, kbEdge, kbA>>
  /\ args.options.topK.kind = "undefined"
  /\ [i \in 1..Len(returned.val) |-> returned.val[i].id] = <<"kb-7", "kb-A">>

\* the provider's response to categorize, case-folded, with every character
\* other than a letter a-z or an underscore removed
Folded(response) ==
  SelectSeq([i \in 1..Len(response) |->
               IF response[i] \in UpperSet THEN LowerOf[response[i]]
               ELSE response[i]],
            LAMBDA c : c \in LowerSet \cup {"_"})

C14_IntentFieldsNormalizedIndividually ==
  fn = "extractIntent" /\ returned.done /\ ~args.completion.fails =>
    /\ returned.val.ok
    /\ LET out == returned.val.val
           q == args.completion.response.parsed
       IN IF ~args.completion.response.parses
            THEN out = [intent |-> unknown, urgency |-> medium,
                        sentiment |-> neutral, keyEntities |-> <<>>]
            ELSE /\ out.urgency = IF q.urgency \in {low, medium, high, critical}
                                    THEN q.urgency ELSE medium
                 /\ out.sentiment =
                      IF q.sentiment \in {positive, neutral, negative, frustrated}
                        THEN q.sentiment ELSE neutral
                 /\ out.keyEntities = IF q.keyEntitiesIsArray
                                        THEN q.keyEntities ELSE <<>>
                 /\ q.intent # <<>> => out.intent = q.intent

\* C14 witness: an object with an invalid urgency and no keyEntities list
\* keeps its valid sentiment and intent
C14_Witness ==
  /\ fn = "extractIntent" /\ returned.done /\ returned.val.ok
  /\ args.completion.response.parses
  /\ args.completion.response.parsed.urgency = str_URGENT
  /\ ~args.completion.response.parsed.keyEntitiesIsArray
  /\ returned.val.val = [intent |-> str_help, urgency |-> medium,
                         sentiment |-> frustrated, keyEntities |-> <<>>]

\* C15 (as claimed): the confidence of every DraftResponse generateDraft
\* returns is a number between 0 and 1, a reported 1.4 giving 1.0 and a
\* reported -0.2 giving 0.0.
C15_ConfidenceInUnitInterval ==
  fn = "generateDraft" /\ returned.done /\ returned.val.ok =>
    LET confidence == returned.val.val.confidence
        reported == args.completion.response.parsed.confidence
    IN /\ confidence.kind = "number"
       /\ confidence.v >= 0 /\ confidence.v <= 100
       /\ args.completion.response.parses /\ reported = JSNum(140)
            => confidence.v = 100
       /\ args.completion.response.parses /\ reported = JSNum(-20)
            => confidence.v = 0

\* C16: when the response holds no parseable object generateDraft returns the
\* raw response as the draft, with confidence 0.5, requiresHumanReview true
\* and no suggested tags.
C16_RawTextFallback ==
  /\ fn = "generateDraft" /\ returned.done
  /\ ~args.completion.fails /\ ~args.completion.response.parses
  =>
    /\ returned.val.ok
    /\ returned.val.val.draft = args.completion.response.raw
    /\ returned.val.val.confidence = [kind |-> "number", v |-> 50]
    /\ returned.val.val.requiresHumanReview = TRUE
    /\ returned.val.val.suggestedTags = <<>>
    /\ ~returned.val.val.isNull

\* C16 witness: a refusal in plain text came back as the draft
C16_Witness ==
  /\ fn = "generateDraft" /\ returned.done /\ returned.val.ok
  /\ ~args.completion.response.parses
  /\ returned.val.val.draft = "Sorry, I cannot help with that."
  /\ returned.val.val.confidence.v = 50

\* C19 (as claimed): reprocess calls getTicket once, before anything else,
\* and never rejects; when a call on the ticketing system that it awaits
\* fails, it returns a result whose error is set.
C19_ReprocessAlwaysReturnsResult ==
  fn = "reprocess" =>
    /\ pc # "rejected"
    /\ CallIdx("getTicket") = {1}
    /\ \A f \in {"getTicket", "addDraftResponse"} :
         ThrowIdx(f) # {} => pc = "returned" /\ result.error.defined

\* the tags of a sequence of tags
TagSet(tags) == {tags[i] : i \in 1..Len(tags)}

\* C20: every update request the ticketing system received is for the
\* ticket and is one of: tags that include every tag last read from the
\* ticket, a comment that is not public and holds the draft, the configured
\* custom field set to the category, a priority of urgent or high; none sets
\* status or assignee, and no tag is ever taken off the ticket.
C20_OnlyTheFourWrites ==
  /\ \A r \in zendesk.puts :
       /\ r.ticketId = ticket.id
       /\ \/ /\ r.update.keys = {"tags"}
             /\ TagSet(zendesk.read) \subseteq TagSet(r.update.tags)
          \/ /\ r.update.keys = {"comment"}
             /\ r.update.comment.public = FALSE
             /\ r.update.comment.body.draft = draftResponse.draft
             /\ ~draftResponse.isNull
          \/ /\ r.update.keys = {"custom_fields"}
             /\ config.categoryFieldId.kind = "number"
             /\ r.update.custom_fields
                  = <<[id |-> config.categoryFieldId.v, value |-> category]>>
          \/ /\ r.update.keys = {"priority"}
             /\ r.update.priority \in {"urgent", "high"}
  /\ pc \notin {"getTicket", "rejected"} =>
       TagSet(IF fn = "reprocess" THEN ticket.tags ELSE StoredTags(ticket))
         \subseteq TagSet(zendesk.tags)

\* C20 witness: all four writes were received for one ticket, the tags
\* update adding the generated tags to the tag the ticket carried
C20_Witness ==
  /\ pc = "returned"
  /\ \A k \in {"tags", "comment", "custom_fields", "priority"} :
       \E r \in zendesk.puts : r.update.keys = {k}
  /\ str_vip \in TagSet(zendesk.tags)
  /\ ai_processed \in TagSet(zendesk.tags)

\* the invocations of process that have started and have not settled
InFlight ==
  {j \in 1..Len(batch.tickets) :
     batch.run[j].pc \notin {"notStarted", "returned", "rejected"}}

\* the chunk of the ticket at position j, counted from 0
ChunkNo(j) == (j - 1) \div batch.concurrency

\* C17: with a concurrency of at least 1, at most concurrency invocations of
\* process are in flight, all of one chunk; the tickets started are a prefix
\* of the list; and a ticket of a later chunk has started only when every
\* ticket of the chunks before it has returned.
C17_ChunksOneAtATime ==
  (fn = "processBatch" /\ batch.concurrency >= 1) =>
    /\ Cardinality(InFlight) <= batch.concurrency
    /\ \A j1, j2 \in InFlight : ChunkNo(j1) = ChunkNo(j2)
    /\ \A j1, j2 \in 1..Len(batch.tickets) :
         (j1 < j2 /\ batch.run[j2].pc # "notStarted") =>
           /\ batch.run[j1].pc # "notStarted"
           /\ ChunkNo(j1) < ChunkNo(j2) => batch.run[j1].pc = "returned"

\* C17 witness: with concurrency 2, the third ticket is in flight after the
\* first two returned, the second before the first
C17_Witness ==
  /\ fn = "processBatch" /\ batch.concurrency = 2
  /\ Len(batch.tickets) = 3
  /\ batch.settled = <<2, 1>>
  /\ InFlight = {3}

\* C18: with a concurrency of at least 1 processBatch never rejects and
\* never calls the classifier twice for a ticket; when it returns, the
\* results are one per ticket in input order, each with its ticket's id, the
\* classifier was called once per ticket, and a ticket whose pipeline threw
\* has a result with error set.
C18_OneResultPerTicketInOrder ==
  (fn = "processBatch" /\ batch.concurrency >= 1) =>
    /\ batch.status # "rejected"
    /\ \A j \in 1..Len(batch.tickets) : batch.run[j].calls <= 1
    /\ returned.done =>
         /\ Len(returned.val) = Len(args.tickets)
         /\ \A j \in 1..Len(args.tickets) :
              /\ returned.val[j].ticketId = args.tickets[j]
              /\ batch.run[j].calls = 1
              /\ returned.val[j].error.defined = batch.run[j].threw
              /\ returned.val[j] = batch.run[j].result

\* C18 witness: three tickets with concurrency 2 returned three results,
\* the second ticket having failed and finished before the first
C18_Witness ==
  /\ fn = "processBatch" /\ returned.done
  /\ args.tickets = <<1, 2, 1>> /\ args.concurrency = JSNum(2)
  /\ batch.settled = <<2, 1, 3>>
  /\ batch.run[2].threw /\ ~batch.run[1].threw /\ ~batch.run[3].threw
  /\ Len(returned.val) = 3

\* a sequence without a repeated element
NoDuplicates(s) == \A i, j \in 1..Len(s) : i # j => s[i] # s[j]

\* C21 (as claimed): after a call of addTags the ticket's tags are the union
\* of the tags it had and the new tags, without duplicates, and the call
\* returned that union; a second call with the same tags sends no update and
\* leaves the tags as they were.
C21_AddTagsMerges ==
  (fn = "addTags" /\ returned.done) =>
    /\ TagSet(zendesk.tags) = TagSet(args.existingTags) \cup TagSet(args.tags)
    /\ NoDuplicates(zendesk.tags)
    /\ TagSet(returned.val) = TagSet(args.existingTags) \cup TagSet(args.tags)
    /\ NoDuplicates(returned.val)
    /\ \A i \in CallIdx("updateTicket") : \A k \in CallIdx("addTags") :
         k < i => \A first \in CallIdx("addTags") : first >= k

\* stages 1 to 3 have succeeded
StagesOneToThreeSucceeded ==
  \A f \in {"categorize", "extractIntent", "hybridSearch"} : ReturnIdx(f) # {}

\* C22 (as claimed): setCustomField is called only with a field id
\* configured; with one configured and stages 1 to 3 succeeded it has been
\* called exactly once, with that id and the category of stage 1; and when it
\* fails while nothing else does, the returned result carries no error.
C22_CategoryFieldOnceIfConfigured ==
  /\ CallIdx("setCustomField") # {} => config.categoryFieldId.kind = "number"
  /\ (config.categoryFieldId.kind = "number" /\ StagesOneToThreeSucceeded) =>
       /\ Cardinality(CallIdx("setCustomField")) = 1
       /\ callOf("setCustomField")
            = [ticketId |-> ticket.id, fieldId |-> config.categoryFieldId.v,
               value |-> ReturnValue("categorize")]
  /\ (/\ pc = "returned" /\ promises.setCustomField = "rejected"
      /\ ~AwaitedCallThrew /\ ThrowIdx("generateTags") = {}) =>
       ~result.error.defined

\* the fire-and-forget writes C23 is about
UnawaitedWrites == {"addTags", "setPriority"}

\* C23: when the tag commit or the priority commit settles, fulfilled or
\* rejected, before or after the return of process, process stays where it
\* is (suspended at the same await, or returned) and its error and its
\* result are left as they were.
C23_TagAndPriorityCommitsNotAwaited ==
  [][\A w \in UnawaitedWrites :
       (promises[w] = "pending" /\ promises'[w] # "pending") =>
         /\ pc' = pc
         /\ result' = result
         /\ error' = error
         /\ promises'[w] \in {"fulfilled", "rejected"}]_vars

\* C23 witness: process has returned its result while both writes are still
\* pending
C23_Witness ==
  /\ pc = "returned" /\ ~result.error.defined
  /\ \A w \in UnawaitedWrites : promises[w] = "pending"

\* C24 (as claimed): the text extractIntent was called with is the ticket's
\* description, or the ticket's subject when the description is empty.
C24_IntentTextDescriptionOrSubject ==
  CallIdx("extractIntent") # {} =>
    callOf("extractIntent") = IF ticket.description = <<>> THEN ticket.subject
                              ELSE ticket.description

\* the calls process makes on the ticketing system that write
WriteCalls == {"addTags", "setCustomField", "addDraftResponse", "setPriority"}

\* some event of f with kind ev lies before position i of the trace
Before(ev, f, i) ==
  \E k \in 1..(i - 1) : trace[k].ev = ev /\ trace[k].fn = f

\* C25: the tag commit is dispatched after hybridSearch returned and before
\* generateDraft is called; the note write is called after generateDraft
\* returned; the priority commit is dispatched after generateDraft returned
\* and after the note write, if there is one, returned; and every write call,
\* and every update request the ticketing system received, comes after
\* categorize, extractIntent and hybridSearch returned.
C25_StatedStateOrder ==
  /\ \A i \in CallIdx("addTags") :
       /\ Before("return", "hybridSearch", i)
       /\ ~Before("call", "generateDraft", i)
  /\ \A i \in CallIdx("addDraftResponse") :
       Before("return", "generateDraft", i)
  /\ \A i \in CallIdx("setPriority") :
       /\ Before("return", "generateDraft", i)
       /\ CallIdx("addDraftResponse") # {} =>
            Before("return", "addDraftResponse", i)
  /\ \A w \in WriteCalls : \A i \in CallIdx(w) :
       \A f \in {"categorize", "extractIntent", "hybridSearch"} :
         Before("return", f, i)
  /\ zendesk.puts # {} => StagesOneToThreeSucceeded

\* C25 witness: a run through every state of the order: tags dispatched,
\* draft generated, note written, priority dispatched, done
C25_Witness ==
  /\ pc = "returned" /\ ~result.error.defined
  /\ \A w \in WriteCalls \ {"setCustomField"} : CallIdx(w) # {}
  /\ ReturnIdx("addDraftResponse") # {}

\* the requests of an identifier admitted from time a up to, not including,
\* time b
RECURSIVE AdmittedUpTo(_, _, _, _)
AdmittedUpTo(identifier, a, b, i) ==
  IF i = 0 THEN 0
  ELSE AdmittedUpTo(identifier, a, b, i - 1)
       + (IF /\ server.seen[i].identifier = identifier
             /\ a <= server.seen[i].at /\ server.seen[i].at < b
            THEN server.seen[i].admitted ELSE 0)

\* C26 (as claimed): of the requests of one identifier in any interval of 60
\* seconds at most 100 are passed on, and the others are answered 429.
C26_AtMostHundredInAnyMinute ==
  \A i \in DOMAIN server.seen :
    /\ AdmittedUpTo(server.seen[i].identifier, server.seen[i].at,
                    server.seen[i].at + RATE_LIMIT_WINDOW_MS,
                    Len(server.seen)) <= RATE_LIMIT_MAX_REQUESTS
    /\ server.seen[i].answered429
         = server.seen[i].requests - server.seen[i].admitted

\* the fixed window of an identifier after the first i groups of requests:
\* a group arriving after start + 60 s, or the first one, starts a window;
\* used counts every request of the window
RECURSIVE WindowAfter(_, _)
WindowAfter(identifier, i) ==
  IF i = 0 THEN [open |-> FALSE, start |-> 0, used |-> 0]
  ELSE LET w == WindowAfter(identifier, i - 1)
           e == server.seen[i]
       IN IF e.identifier # identifier THEN w
          ELSE IF ~w.open \/ e.at > w.start + RATE_LIMIT_WINDOW_MS
            THEN [open |-> TRUE, start |-> e.at, used |-> e.requests]
          ELSE [w EXCEPT !.used = @ + e.requests]

\* how many requests of group i the fixed window admits: those among the
\* first 100 of their window
WindowAdmits(i) ==
  LET e == server.seen[i]
      w == WindowAfter(e.identifier, i)
      before == w.used - e.requests
  IN IF before >= RATE_LIMIT_MAX_REQUESTS THEN 0
     ELSE MinOf(e.requests, RATE_LIMIT_MAX_REQUESTS - before)

\* C30: each identifier has one fixed window: requests 1 to 100 of a window
\* are admitted, the later ones are answered 429 and counted too, and the
\* first request after the reset time starts a new window and is admitted;
\* the sweep deletes only records whose reset time has passed, and with or
\* without sweeps the same requests are admitted.
C30_OneFixedWindowPerIdentifier ==
  /\ \A i \in DOMAIN server.seen :
       /\ server.seen[i].admitted = WindowAdmits(i)
       /\ server.seen[i].answered429
            = server.seen[i].requests - WindowAdmits(i)
  /\ \A i \in DOMAIN server.seen :
       LET id == server.seen[i].identifier
           w == WindowAfter(id, Len(server.seen))
       IN IF id \in DOMAIN server.requestCounts
            THEN /\ server.requestCounts[id].count = w.used
                 /\ server.requestCounts[id].resetTime
                      = w.start + RATE_LIMIT_WINDOW_MS
            ELSE server.now > w.start + RATE_LIMIT_WINDOW_MS
  /\ \A id \in DOMAIN server.requestCounts :
       \E i \in DOMAIN server.seen : server.seen[i].identifier = id

\* C30 witness: an identifier was answered 429 in one window and admitted
\* again by the first request after the reset time, which started a new
\* count
C30_Witness ==
  \E i, j \in DOMAIN server.seen :
    /\ i < j
    /\ server.seen[i].identifier = server.seen[j].identifier
    /\ server.seen[i].answered429 > 0
    /\ server.seen[j].at = server.seen[i].at + RATE_LIMIT_WINDOW_MS + 1
    /\ server.seen[j].admitted = server.seen[j].requests
    /\ server.requestCounts[server.seen[j].identifier].count
         = server.seen[j].requests


\* the request carries this signature header
SignedWith(req, expected) ==
  /\ req.signature.kind = "string"
  /\ req.signature.length = expected.length
  /\ req.signature.digest = expected.digest

\* process has been started on the ticket the handler was invoked with
ProcessStarted ==
  /\ pc # "idle"
  /\ trace # <<>>
  /\ trace[1] = Called("categorize",
                       [subject |-> server.handled[1].ticket.subject,
                        description |-> server.handled[1].ticket.description,
                        tags |-> server.handled[1].ticket.tags])

\* C27: with a webhook secret configured, the ticket handler and process
\* are reached only by a request that carries both signature headers and
\* whose signature is the base64 HMAC-SHA256 of '<timestamp>.<JSON body>'
\* under the secret; a request whose signature is missing or different
\* never reaches them. With no secret configured every request passes the
\* signature validation.
C27_OnlySignedRequestsReachHandler ==
  (fn = "webhook" /\ server.reached # <<>>) =>
    LET req == server.request
        expected == createHmac(server.secret,
                               [timestamp |-> req.timestamp.chars,
                                body |-> req.body])
    IN /\ (server.secret # "" /\ server.handled # <<>>) =>
            /\ req.timestamp.kind = "string" /\ req.timestamp.chars # <<>>
            /\ req.signature.kind = "string" /\ req.signature.length > 0
            /\ SignedWith(req, expected)
       /\ (server.secret # "" /\ ~SignedWith(req, expected)) =>
            /\ server.handled = <<>>
            /\ pc = "idle" /\ trace = <<>>
       /\ server.handled # <<>> => ProcessStarted
       /\ server.secret = "" =>
            server.reached # <<"rateLimit", "validateZendeskWebhook">>

\* C27 witness: the server has a secret, the request was signed with it and
\* process ran to its end on its ticket
C27_Witness ==
  /\ fn = "webhook"
  /\ server.secret # ""
  /\ server.handled # <<>>
  /\ SignedWith(server.request,
                createHmac(server.secret,
                           [timestamp |-> server.request.timestamp.chars,
                            body |-> server.request.body]))
  /\ pc = "returned"

\* a required field is missing from a ticket object: left out, null or the
\* empty string
Absent(x) ==
  x.kind \in {"undefined", "null"} \/ (x.kind = "string" /\ x.chars = <<>>)

\* t is s without the white space at its ends
Trimmed(s, t) ==
  /\ t = <<>> \/ (t[1] \notin Whitespace /\ t[Len(t)] \notin Whitespace)
  /\ \E i \in 1..(Len(s) + 1) :
       /\ i + Len(t) - 1 <= Len(s)
       /\ t = SubSeq(s, i, i + Len(t) - 1)
       /\ \A k \in 1..Len(s) :
            (k < i \/ k > i + Len(t) - 1) => s[k] \in Whitespace

\* the request reached validateTicketPayload
ValidatedPayload ==
  /\ fn = "webhook"
  /\ Len(server.reached) >= 3

\* validateTicketPayload did what C28 states for the fields other than id
PayloadValidatedExceptId ==
  LET tk == server.request.body.ticket
      response == server.responses[1]
      absent == {f \in {"id", "subject", "description"} : Absent(tk[f])}
  IN IF ~tk.present \/ absent # {}
       THEN /\ response.status = 400
            /\ Len(server.responses) = 1
            /\ server.handled = <<>>
            /\ pc = "idle" /\ trace = <<>>
            /\ tk.present =>
                 /\ {response.missing[i] : i \in DOMAIN response.missing}
                      = absent
                 /\ Len(response.missing) = Cardinality(absent)
       ELSE /\ server.handled # <<>>
            /\ ProcessStarted
            /\ LET given == server.handled[1].ticket
               IN /\ Trimmed(String(tk.subject), given.subject)
                  /\ Trimmed(String(tk.description), given.description)
                  /\ given.tags = IF tk.tags.kind = "array"
                                    THEN tk.tags.items ELSE <<>>
                  /\ given.requester.defined
                  /\ given.requester =
                       IF tk.requester.defined THEN tk.requester
                       ELSE [defined |-> TRUE, name |-> str_Customer,
                             email |-> "unknown@example.com"]

\* C28: validateTicketPayload answers 400 and never invokes the ticket
\* handler when the body has no ticket object or when any of id, subject,
\* description is missing, and in the second case the response's missing
\* list holds exactly the absent fields; otherwise the handler is invoked
\* with the ticket normalized: numeric id, trimmed subject and description,
\* tags a list, requester defaulted.
C28_PayloadValidatedAndNormalized ==
  ValidatedPayload =>
    /\ PayloadValidatedExceptId
    /\ server.handled # <<>> =>
         LET id == server.request.body.ticket.id
             given == server.handled[1].ticket.id
         IN /\ given.kind = "number"
            /\ id.kind = "number" => given.v = id.num

\* the success response to the handled request has been sent, and nothing
\* else
SuccessResponseSent ==
  /\ Len(server.responses) = 1
  /\ server.responses[1].status = 200
  /\ server.responses[1].success
  /\ server.responses[1].message = "Ticket received and processing started"

\* the route answered every request once, started process for every
\* payload that passed validation, and had answered it by the time process
\* reached its first await
AnsweredBeforeProcessCompletes ==
  (fn = "webhook" /\ server.reached # <<>>) =>
    /\ Len(server.responses) = 1
    /\ server.handled # <<>> => ProcessStarted /\ SuccessResponseSent
    /\ (Len(server.reached) >= 3
        /\ validateTicketPayload(server.request.body).next) =>
         server.handled # <<>>

\* C29: for every valid payload POST /webhook/ticket starts process and
\* sends its success response (success = true, the ticket id) without
\* waiting for process to complete; exactly one response is sent per
\* request, and the response is the same whether processing later
\* succeeds, returns a result with error, or fails.
C29_RespondsBeforeProcessCompletes ==
  /\ AnsweredBeforeProcessCompletes
  /\ (fn = "webhook" /\ server.handled # <<>>) =>
       server.responses[1].ticketId = server.handled[1].ticket.id

\* validateZendeskWebhook stopped the request
StoppedAtSignature ==
  /\ fn = "webhook"
  /\ server.secret # ""
  /\ server.reached = <<"rateLimit", "validateZendeskWebhook">>

\* C31: with a secret configured, a request reaches the handler only if its
\* signature timestamp is a number within 5 minutes of the current time: one
\* more than 5 minutes away from now, before or after, or not a number, is
\* rejected even when correctly signed.
C31_TimestampWithinFiveMinutes ==
  (fn = "webhook" /\ server.secret # "" /\ server.handled # <<>>) =>
    LET seconds == parseInt(server.request.timestamp.chars)
    IN /\ seconds.kind = "number"
       /\ server.now - seconds.v * 1000 <= MaxTimestampAge
       /\ seconds.v * 1000 - server.now <= MaxTimestampAge

\* C32: with a secret configured, every request that fails the signature
\* validation (a header missing, the timestamp expired, the signature not
\* matching, whatever its length) is answered with HTTP 401 and an error
\* body, never with another status.
C32_ValidationFailureAnswers401 ==
  StoppedAtSignature =>
    /\ Len(server.responses) = 1
    /\ server.responses[1].status = 401
    /\ server.responses[1].error # ""

\* C39: every ticket that reaches process through the webhook route has a
\* non-empty subject and a non-empty description after normalization; a
\* payload whose subject or description is empty or only white space is
\* answered 400.
C39_NonEmptySubjectAndDescription ==
  /\ (fn = "webhook" /\ server.handled # <<>>) =>
       /\ ticket.subject # <<>>
       /\ ticket.description # <<>>
  /\ ValidatedPayload =>
       LET tk == server.request.body.ticket
           blank(x) == x.kind = "string" /\ trim(x.chars) = <<>>
       IN (tk.present /\ (blank(tk.subject) \/ blank(tk.description))) =>
            server.responses[1].status = 400

\* both addTags calls have settled
BothCompleted ==
  /\ fn = "addTagsTwice"
  /\ \A i \in 1..2 : returned[i].at \in {"returned", "rejected"}

\* the calls whose update reached the ticket, in the order they did
Writers ==
  LET F[k \in 0..Len(trace)] ==
        IF k = 0 THEN <<>>
        ELSE IF trace[k] \in {Returned("updateTicket", i) : i \in 1..2}
          THEN Append(F[k - 1], trace[k].val)
        ELSE F[k - 1]
  IN F[Len(trace)]

\* C33: under every interleaving of two concurrent addTags calls on the same
\* ticket, each tag that was on the ticket before both calls started is
\* still on it after both complete, and the final tags are those written by
\* the last writer: the tags that writer read plus its own new tags; only
\* tags are written.
C33_LastWriterWins ==
  BothCompleted =>
    /\ TagSet(args.existingTags) \subseteq TagSet(zendesk.tags)
    /\ IF Writers = <<>> THEN zendesk.tags = args.existingTags
       ELSE LET last == Writers[Len(Writers)]
            IN TagSet(zendesk.tags)
                 = TagSet(returned[last].read) \cup TagSet(args.tags[last])
    /\ \A r \in zendesk.puts :
         r.ticketId = args.ticketId /\ r.update.keys = {"tags"}

\* C33 witness: both calls read the ticket before either wrote, both wrote,
\* and a tag the first writer added is no longer on the ticket
C33_Witness ==
  /\ BothCompleted
  /\ Len(Writers) = 2
  /\ returned[1].read = args.existingTags
  /\ returned[2].read = args.existingTags
  /\ \E t \in TagSet(args.tags[Writers[1]]) : t \notin TagSet(zendesk.tags)

\* the awaited note write of step 7 threw
NoteWriteThrew ==
  \E i \in 1..Len(trace) :
    trace[i].ev = "throw" /\ trace[i].fn = "addDraftResponse"

\* C34 (as claimed): in every result returned by process, if error is set
\* then draftResponse is absent.
C34_ErrorImpliesNoDraft ==
  (fn = "process" /\ pc = "returned" /\ result.error.defined) =>
    result.draftResponse.isNull

\* C34 (amended): in every result returned by process, if error is set then
\* draftResponse is absent, unless the error is that of the draft note write
\* of step 7 throwing: that result carries the generated draft together with
\* the error.
C34_ErrorImpliesNoDraftUnlessNoteWriteThrew ==
  (fn = "process" /\ pc = "returned") =>
    /\ (result.error.defined /\ ~NoteWriteThrew) => result.draftResponse.isNull
    /\ NoteWriteThrew =>
         /\ result.error.defined
         /\ ~result.draftResponse.isNull
         /\ result.draftResponse = ReturnValue("generateDraft")

\* C34 witness: the note write threw and process returned the draft with the
\* error
C34_Witness ==
  /\ fn = "process" /\ pc = "returned"
  /\ NoteWriteThrew
  /\ result.error.defined
  /\ ~result.draftResponse.isNull

\* the provider reported this numeric confidence in a parseable answer and
\* steps 6 and 7 have run
ReportedConfidence ==
  /\ fn = "draftGate"
  /\ returned.done
  /\ ~args.completion.fails
  /\ args.completion.response.parses
  /\ args.completion.response.parsed.confidence.kind = "number"

\* C35: a draft for which the provider reported a numeric confidence below
\* minConfidenceForDraft, a reported confidence of exactly 0 included, is
\* never written to the ticket as a note; for every reported confidence c
\* in [0,1] the returned DraftResponse.confidence equals c.
C35_ReportedConfidenceDecidesGate ==
  ReportedConfidence =>
    LET c == args.completion.response.parsed.confidence.v
    IN /\ c < args.config.minConfidenceForDraft.v =>
            returned.val.noteWrites = {}
       /\ (c >= 0 /\ c <= 100) =>
            returned.val.draft.val.confidence = JSNum(c)

\* the tags of the ticket that start with this prefix
TagsWithPrefix(prefix) ==
  {t \in TagSet(zendesk.tags) :
     Len(t) >= Len(prefix) /\ SubSeq(t, 1, Len(prefix)) = prefix}

\* C36: after any sequence of process and reprocess invocations on the same
\* ticket the ticket carries at most one ai_category:* tag, at most one
\* ai_urgency:* tag and at most one ai_sentiment:* tag, namely those of the
\* most recent run.
C36_OneTagPerKind ==
  (fn = "runs" /\ returned.done) =>
    /\ TagsWithPrefix(ai_category) = {ai_category \o returned.val.category}
    /\ TagsWithPrefix(ai_urgency) = {ai_urgency \o returned.val.urgency}
    /\ TagsWithPrefix(ai_sentiment) = {ai_sentiment \o returned.val.sentiment}

\* C37: processBatch terminates for every finite ticket list and every
\* integer concurrency the caller passes, provided every collaborator call
\* eventually completes: it eventually returns its result list.
C37_ProcessBatchTerminates ==
  fn = "processBatch" => <>(batch.status = "returned" /\ returned.done)

\* the entries of the returned errors that name the document
ErrorEntries(doc) ==
  {j \in DOMAIN returned.val.val.errors : returned.val.val.errors[j].id = doc}

\* C38: indexDocuments does not reject and accounts for every document
\* exactly once: each document is counted in indexed or named by exactly one
\* entry of errors, so indexed + errors.length = documents.length
C38_EveryDocumentAccountedOnce ==
  (fn = "indexDocuments" /\ returned.done) =>
    /\ returned.val.ok
    /\ \A j \in DOMAIN args.documents :
         Cardinality(ErrorEntries(args.documents[j])) <= 1
    /\ returned.val.val.indexed + Len(returned.val.val.errors)
         = Len(args.documents)
====
